---- MODULE Spec2Model ----
(***************************************************************************)
(* A model of TiledArray's communication substrate                         *)
(* (src/TiledArray/dist_op/communicator.h) and of its per-tile foreach      *)
(* (src/TiledArray/conversions/foreach.h): point-to-point send/recv over    *)
(* the per-key distributed cache, the binary-tree broadcast over the world  *)
(* or over a group, the lazy sync barrier and the argument checks of the    *)
(* collective calls.  DistCache, LazySync, Group and the tree of the        *)
(* process world are not part of the available sources; they are modelled   *)
(* from the design document (sections 3, 4.1, 4.2, 4.3) and marked as such, *)
(* as are DistArray, the process maps, the sparse shape and the fence that  *)
(* foreach relies on (sections 3, 4.5 and 6).                               *)
(***************************************************************************)
EXTENDS Integers, Sequences, FiniteSets, Bags, TLC

(***************************************************************************)
(* Bounds of the model.                                                    *)
(***************************************************************************)
MaxProcs == 5          \* largest world size explored
NumValues == 2         \* values a producer may deposit: 1..NumValues
MaxSets == 2           \* set calls per key explored by the cache model
MaxGets == 3           \* get calls per key explored by the cache model
MaxSendProcs == 3      \* largest world size explored by the send/recv model
MaxGroupProcs == 4     \* largest world size explored by the group broadcast model
MaxArgProcs == 3       \* largest world size explored by the argument checks
MaxRounds == 2         \* barriers made one after the other with the same key
MaxForeachProcs == 2   \* largest world size explored by the foreach model
NumTiles == 4          \* tiles of the arrays given to foreach: 0..NumTiles-1
MaxKeyProcs == 3       \* largest world size with two operations in flight
MaxElems == 2          \* elements of a tile given to ScalAdd

Procs == 0 .. (MaxProcs - 1)
Values == 1 .. NumValues
Keys == {"k1"}
\* The keys a cache can hold; the second one is used where two operations
\* are in flight at once.
AllKeys == {"k1", "k2"}
NoVal == 0
NoFut == 0
NoProc == -1           \* "does not exist" for a tree neighbour
GroupFut == -1         \* the Future<Group> of Group::get_group, as a task argument
WorldId == 0           \* world_->id(), the id of the communicator's world

VARIABLES
  np,         \* world size (world_->size())
  cache,      \* cache[p][k]: the entry of DistCache<Key>::caches_ on process p
  fut,        \* store of madness::Future objects, addressed by id 1..Len(fut)
  callbacks,  \* live DelayedSend callback objects
  taskq,      \* bag of tasks submitted to world->taskq and not yet run
  err,        \* err[p]: a TA_ASSERT / logic error was raised on process p
  sets,       \* history: sets[p][k] = values given to set_cache_data, in order
  gets,       \* history: gets[p][k] = handles returned by get_cache_data, in order
  stats,      \* history: counters of callback objects created / destroyed
  call,       \* the collective call under study (root, value future, callers)
  sync,       \* LazySync state of every process
  groups,     \* registry of Group::get_group: the processes that know the group
  trees,      \* trees[p]: the neighbours Group::make_tree gave to process p
  fe          \* the foreach call under study: its arguments, arrays and progress

vars ==
  <<np, cache, fut, callbacks, taskq, err, sets, gets, stats, call, sync, groups,
    trees, fe>>

(***************************************************************************)
(* Futures (madness::Future<T>): resolve-once, multi-read.  fwd holds the  *)
(* futures that were set from this one while it was still unresolved.      *)
(***************************************************************************)
NewFuture == [set |-> FALSE, val |-> NoVal, fwd |-> {}]
ReadyFuture(v) == [set |-> TRUE, val |-> v, fwd |-> {}]

probe(F, f) == F[f].set

(***************************************************************************)
(* Cache entries (design document section 3, CacheEntry).                   *)
(***************************************************************************)
NoEntry == [kind |-> "none", val |-> NoVal, fut |-> NoFut]
ValueEntry(v) == [kind |-> "value", val |-> v, fut |-> NoFut]
FutureEntry(g) == [kind |-> "future", val |-> NoVal, fut |-> g]
PendingEntry(f) == [kind |-> "pending", val |-> NoVal, fut |-> f]

EmptyCache == [p \in Procs |-> [k \in AllKeys |-> NoEntry]]
EmptyLog == [p \in Procs |-> [k \in AllKeys |-> <<>>]]

(***************************************************************************)
(* The part of the state the handlers of Communicator read and write,      *)
(* passed through them as one record.                                      *)
(***************************************************************************)
St == [cache |-> cache, fut |-> fut, callbacks |-> callbacks, taskq |-> taskq,
       err |-> err, sets |-> sets, gets |-> gets, stats |-> stats]

Commit(s) ==
  /\ cache' = s.cache
  /\ fut' = s.fut
  /\ callbacks' = s.callbacks
  /\ taskq' = s.taskq
  /\ err' = s.err
  /\ sets' = s.sets
  /\ gets' = s.gets
  /\ stats' = s.stats

(***************************************************************************)
(* Future<T>::set: resolve f to v, and with it every future that was set   *)
(* from f while f was unresolved.  Futures held by the cache as pending    *)
(* consumers carry no callbacks, so none run here.                         *)
(***************************************************************************)
future_set(F, f, v) ==
  [g \in DOMAIN F |->
     IF g = f \/ g \in F[f].fwd
     THEN [set |-> TRUE, val |-> v, fwd |-> {}]
     ELSE F[g]]

\* f.set(g) for two futures: f takes g's value now, or when g resolves.
future_set_from(F, f, g) ==
  IF F[g].set
  THEN future_set(F, f, F[g].val)
  ELSE [F EXCEPT ![g].fwd = @ \cup {f} \cup F[f].fwd]

\* Faulty variant: the entry is looked up without its key: a set that finds
\* no consumer under its own key serves a consumer pending under another.
set_cache_data_any_key(s, p, k, v) ==
  LET e == s.cache[p][k]
      h == [s EXCEPT !.sets[p][k] = Append(@, v)]
      others == {j \in AllKeys : j # k /\ s.cache[p][j].kind = "pending"}
  IN CASE e.kind = "none" /\ others = {} ->
            [h EXCEPT !.cache[p][k] = ValueEntry(v)]
       [] e.kind = "none" /\ others # {} ->
            LET j == CHOOSE j \in others : TRUE
            IN [h EXCEPT !.cache[p][j] = NoEntry,
                         !.fut = future_set(s.fut, s.cache[p][j].fut, v)]
       [] e.kind = "pending" ->
            [h EXCEPT !.cache[p][k] = NoEntry,
                      !.fut = future_set(s.fut, e.fut, v)]
       [] OTHER ->
            [h EXCEPT !.err[p] = TRUE]

\* Faulty variant: a set on a live key silently replaces the stored value.
set_cache_data_overwrite(s, p, k, v) ==
  LET e == s.cache[p][k]
      h == [s EXCEPT !.sets[p][k] = Append(@, v)]
  IN IF e.kind = "pending"
     THEN [h EXCEPT !.cache[p][k] = NoEntry,
                    !.fut = [s.fut EXCEPT ![e.fut] = ReadyFuture(v)]]
     ELSE [h EXCEPT !.cache[p][k] = ValueEntry(v)]

(***************************************************************************)
(* DistCache<Key>::set_cache_data(key, value), value a plain T.            *)
(* Design document 4.1: a registered consumer is handed the value and the  *)
(* entry is cleared; with no consumer the value is stored; a second set on *)
(* a live key is a fatal logic error.                                      *)
(***************************************************************************)
set_cache_data(s, p, k, v) ==
  LET e == s.cache[p][k]
      h == [s EXCEPT !.sets[p][k] = Append(@, v)]
  IN CASE e.kind = "none" ->
            [h EXCEPT !.cache[p][k] = ValueEntry(v)]
       [] e.kind = "pending" ->
            [h EXCEPT !.cache[p][k] = NoEntry,
                      !.fut = future_set(s.fut, e.fut, v)]
       [] OTHER ->
            [h EXCEPT !.err[p] = TRUE]

(***************************************************************************)
(* set_cache_data(key, value) instantiated with value a Future<T>: the     *)
(* cache takes the (possibly unresolved) future g itself.                  *)
(***************************************************************************)
set_cache_future(s, p, k, g) ==
  LET e == s.cache[p][k]
      h == [s EXCEPT !.sets[p][k] = Append(@, s.fut[g].val)]
  IN CASE e.kind = "none" ->
            [h EXCEPT !.cache[p][k] = FutureEntry(g)]
       [] e.kind = "pending" ->
            [h EXCEPT !.cache[p][k] = NoEntry,
                      !.fut = future_set_from(s.fut, e.fut, g)]
       [] OTHER ->
            [h EXCEPT !.err[p] = TRUE]

(***************************************************************************)
(* DistCache<Key>::get_cache_data<T>(key) -> Future<T>.  Design document   *)
(* 4.1: the handle resolves at once when the value is already deposited    *)
(* (and the entry is destroyed), otherwise upon the later set; gets made   *)
(* before resolution share the pending handle.  Result: the new state and  *)
(* the handle returned.                                                    *)
(***************************************************************************)
GetRecord(s, p, k, f) ==
  [fut |-> f, nsets |-> Len(s.sets[p][k]), saw |-> s.cache[p][k].kind]

get_cache_data(s, p, k) ==
  LET e == s.cache[p][k]
      n == Len(s.fut) + 1
  IN CASE e.kind = "none" ->
            [st |-> [s EXCEPT !.cache[p][k] = PendingEntry(n),
                              !.fut = Append(@, NewFuture),
                              !.gets[p][k] = Append(@, GetRecord(s, p, k, n))],
             ret |-> n]
       [] e.kind = "value" ->
            [st |-> [s EXCEPT !.cache[p][k] = NoEntry,
                              !.fut = Append(@, ReadyFuture(e.val)),
                              !.gets[p][k] = Append(@, GetRecord(s, p, k, n))],
             ret |-> n]
       [] e.kind = "future" ->
            [st |-> [s EXCEPT !.cache[p][k] = NoEntry,
                              !.gets[p][k] = Append(@, GetRecord(s, p, k, e.fut))],
             ret |-> e.fut]
       [] OTHER ->
            [st |-> [s EXCEPT !.gets[p][k] = Append(@, GetRecord(s, p, k, e.fut))],
             ret |-> e.fut]

\* Faulty variant: a get that finds the value deposited hands it over and
\* leaves the entry in the cache.
get_cache_data_into_keep(s, p, k, f) ==
  LET e == s.cache[p][k]
      h == [s EXCEPT !.gets[p][k] = Append(@, GetRecord(s, p, k, f))]
  IN CASE e.kind = "none" ->
            [h EXCEPT !.cache[p][k] = PendingEntry(f)]
       [] e.kind = "value" ->
            [h EXCEPT !.fut = future_set(s.fut, f, e.val)]
       [] OTHER ->
            [h EXCEPT !.fut = future_set_from(s.fut, f, e.fut)]

(***************************************************************************)
(* DistCache<Key>::get_cache_data(key, data): the caller's future data is  *)
(* the handle.                                                             *)
(***************************************************************************)
get_cache_data_into(s, p, k, f) ==
  LET e == s.cache[p][k]
      h == [s EXCEPT !.gets[p][k] = Append(@, GetRecord(s, p, k, f))]
  IN CASE e.kind = "none" ->
            [h EXCEPT !.cache[p][k] = PendingEntry(f)]
       [] e.kind = "value" ->
            [h EXCEPT !.cache[p][k] = NoEntry,
                      !.fut = future_set(s.fut, f, e.val)]
       [] e.kind = "future" ->
            [h EXCEPT !.cache[p][k] = NoEntry,
                      !.fut = future_set_from(s.fut, f, e.fut)]
       [] OTHER ->
            [h EXCEPT !.fut = future_set_from(s.fut, f, e.fut)]

(***************************************************************************)
(* world->taskq.add(dest, fn, args...): a task in flight.  dep is the      *)
(* Future argument the task waits for (NoFut: none).                       *)
(***************************************************************************)
Task(dest, fn, k, v, root, dep) ==
  [dest |-> dest, fn |-> fn, key |-> k, val |-> v, root |-> root, dep |-> dep]

taskq_add(s, t) == [s EXCEPT !.taskq = @ (+) SetToBag({t})]

\* Process p submits the broadcast task t to the child t.dest; stats.fanout
\* keeps the pairs of the submitting process and the child.
fan_out(s, p, t) ==
  [taskq_add(s, t) EXCEPT !.stats.fanout = @ (+) SetToBag({<<p, t.dest>>})]

(***************************************************************************)
(* Communicator::recv                                                      *)
(***************************************************************************)
recv(s, p, k) == get_cache_data(s, p, k)

\* Faulty variant: the test for "dest is this process" is inverted, so a local send
\* becomes a task and a remote send deposits into the sender's own cache.
send_inverted(s, p, dest, k, v) ==
  IF p # dest
  THEN set_cache_data(s, p, k, v)
  ELSE taskq_add(s, Task(dest, "set_cache_data", k, v, NoProc, NoFut))

\* Faulty variant: the destination is left out of taskq.add, so the task runs on the
\* sending process.
send_no_dest(s, p, dest, k, v) ==
  IF p = dest
  THEN set_cache_data(s, p, k, v)
  ELSE taskq_add(s, Task(p, "set_cache_data", k, v, NoProc, NoFut))

(***************************************************************************)
(* Communicator::send, value a plain T                                     *)
(***************************************************************************)
send(s, p, dest, k, v) ==
  IF p = dest
  THEN set_cache_data(s, p, k, v)
  ELSE taskq_add(s, Task(dest, "set_cache_data", k, v, NoProc, NoFut))

(***************************************************************************)
(* Communicator::DelayedSend: the callback object and its notify().        *)
(***************************************************************************)
DelayedSend(id, p, dest, k, g) ==
  [id |-> id, world |-> p, dest |-> dest, key |-> k, value |-> g]

notify(s, cb) ==
  LET a == IF probe(s.fut, cb.value) THEN s ELSE [s EXCEPT !.err[cb.world] = TRUE]
      b == send(a, cb.world, cb.dest, cb.key, a.fut[cb.value].val)
  IN [b EXCEPT !.callbacks = @ \ {cb}, !.stats.deleted = @ + 1]

\* Faulty variant: the probe of the Future is skipped and the task is spawned at once.
send_future_eager(s, p, dest, k, g) ==
  IF p = dest
  THEN set_cache_future(s, p, k, g)
  ELSE taskq_add(s, Task(dest, "set_cache_data", k, s.fut[g].val, NoProc, NoFut))

(***************************************************************************)
(* Communicator::send, value a Future<T>                                   *)
(***************************************************************************)
send_future(s, p, dest, k, g) ==
  IF p = dest
  THEN set_cache_future(s, p, k, g)
  ELSE IF probe(s.fut, g)
       THEN taskq_add(s, Task(dest, "set_cache_data", k, s.fut[g].val, NoProc, NoFut))
       ELSE [s EXCEPT !.callbacks = @ \cup {DelayedSend(s.stats.created + 1, p, dest, k, g)},
                      !.stats.created = @ + 1]

(***************************************************************************)
(* The producer of a user future g resolves it to v: Future<T>::set runs   *)
(* the callbacks registered on g, one after the other.                     *)
(***************************************************************************)
RECURSIVE run_callbacks(_, _)
run_callbacks(s, cbs) ==
  IF cbs = {} THEN s
  ELSE LET cb == CHOOSE c \in cbs : TRUE
       IN run_callbacks(notify(s, cb), cbs \ {cb})

resolve(s, g, v) ==
  LET a == [s EXCEPT !.fut = future_set(s.fut, g, v)]
  IN run_callbacks(a, {cb \in s.callbacks : cb.value = g})

(***************************************************************************)
(* world->mpi.binary_tree_info(root, parent, child0, child1) on process    *)
(* rank of a world of n processes: the rotated binary heap of the design   *)
(* document (4.2): root maps to index 0 by cyclic rotation, the children   *)
(* of index i are 2i+1 and 2i+2, the parent is (i-1)/2, and -1 stands for  *)
(* "does not exist".                                                       *)
(***************************************************************************)
Rotated(rank, root, n) == (rank + n - root) % n

Unrotated(i, root, n) == IF i < n THEN (i + root) % n ELSE NoProc

binary_tree_info(rank, root, n) ==
  LET me == Rotated(rank, root, n)
  IN [parent |-> IF me = 0 THEN NoProc ELSE (((me - 1) \div 2) + root) % n,
      child0 |-> Unrotated(2 * me + 1, root, n),
      child1 |-> Unrotated(2 * me + 2, root, n)]

\* Faulty variant: the tree is not rotated to the root (it is always rooted at 0).
bcast_children_unrotated(s, n, p, k, v, root) ==
  LET tree == binary_tree_info(p, 0, n)
      a == IF tree.child0 # NoProc
           THEN fan_out(s, p, Task(tree.child0, "bcast_task", k, v, root, NoFut))
           ELSE s
  IN IF tree.child1 # NoProc
     THEN fan_out(a, p, Task(tree.child1, "bcast_task", k, v, root, NoFut))
     ELSE a

\* Faulty variant: the value is passed along a chain, each process serving
\* the next rank after it.
bcast_children_chain(s, n, p, k, v, root) ==
  LET next == Unrotated(Rotated(p, root, n) + 1, root, n)
  IN IF next # NoProc
     THEN fan_out(s, p, Task(next, "bcast_task", k, v, root, NoFut))
     ELSE s

(***************************************************************************)
(* Communicator::bcast_children, run on process p of a world of n.         *)
(***************************************************************************)
bcast_children(s, n, p, k, v, root) ==
  LET tree == binary_tree_info(p, root, n)
      a == IF tree.child0 # NoProc
           THEN fan_out(s, p, Task(tree.child0, "bcast_task", k, v, root, NoFut))
           ELSE s
  IN IF tree.child1 # NoProc
     THEN fan_out(a, p, Task(tree.child1, "bcast_task", k, v, root, NoFut))
     ELSE a

\* Faulty variant: the value is deposited but the fan-out is not continued.
bcast_task_no_forward(s, n, p, k, v, root) == set_cache_data(s, p, k, v)

(***************************************************************************)
(* Communicator::bcast_task, run on process p.                             *)
(***************************************************************************)
bcast_task(s, n, p, k, v, root) ==
  bcast_children(set_cache_data(s, p, k, v), n, p, k, v, root)

\* Faulty variant: the range of root is not checked.
bcast_no_root_check(s, n, p, k, f, root) ==
  IF ~(p = root \/ ~probe(s.fut, f)) THEN [s EXCEPT !.err[p] = TRUE]
  ELSE IF n > 1
       THEN IF p = root
            THEN IF probe(s.fut, f)
                 THEN bcast_children(s, n, p, k, s.fut[f].val, root)
                 ELSE taskq_add(s, Task(p, "bcast_children", k, NoVal, root, f))
            ELSE get_cache_data_into(s, p, k, f)
       ELSE s

\* Faulty variant: a resolved value is refused on every process, the root included.
bcast_resolved_refused(s, n, p, k, f, root) ==
  IF ~(root >= 0 /\ root < n) THEN [s EXCEPT !.err[p] = TRUE]
  ELSE IF probe(s.fut, f) THEN [s EXCEPT !.err[p] = TRUE]
  ELSE IF n > 1
       THEN IF p = root
            THEN taskq_add(s, Task(p, "bcast_children", k, NoVal, root, f))
            ELSE get_cache_data_into(s, p, k, f)
       ELSE s

\* Faulty variant: the root fans out at once, whether or not its value is
\* resolved.
bcast_root_eager(s, n, p, k, f, root) ==
  IF ~(root >= 0 /\ root < n) THEN [s EXCEPT !.err[p] = TRUE]
  ELSE IF ~(p = root \/ ~probe(s.fut, f)) THEN [s EXCEPT !.err[p] = TRUE]
  ELSE IF n > 1
       THEN IF p = root
            THEN bcast_children(s, n, p, k, s.fut[f].val, root)
            ELSE get_cache_data_into(s, p, k, f)
       ELSE s

(***************************************************************************)
(* Communicator::bcast(key, value, root) called on process p, value the    *)
(* Future f.  A failed TA_ASSERT throws: the call has no other effect.     *)
(***************************************************************************)
bcast(s, n, p, k, f, root) ==
  IF ~(root >= 0 /\ root < n) THEN [s EXCEPT !.err[p] = TRUE]
  ELSE IF ~(p = root \/ ~probe(s.fut, f)) THEN [s EXCEPT !.err[p] = TRUE]
  ELSE IF n > 1
       THEN IF p = root
            THEN IF probe(s.fut, f)
                 THEN bcast_children(s, n, p, k, s.fut[f].val, root)
                 ELSE taskq_add(s, Task(p, "bcast_children", k, NoVal, root, f))
            ELSE IF probe(s.fut, f)
                 THEN [s EXCEPT !.err[p] = TRUE]
                 ELSE get_cache_data_into(s, p, k, f)
       ELSE s

(***************************************************************************)
(* The task queue of t.dest runs task t.  A task with a Future argument    *)
(* is run once that Future is resolved, with its value.                    *)
(***************************************************************************)
TaskReady(F, t) == IF t.dep = NoFut THEN TRUE ELSE probe(F, t.dep)

run_task(s, n, t) ==
  LET a == [s EXCEPT !.taskq = @ (-) SetToBag({t})]
  IN CASE t.fn = "set_cache_data" -> set_cache_data(a, t.dest, t.key, t.val)
       [] t.fn = "bcast_task" -> bcast_task(a, n, t.dest, t.key, t.val, t.root)
       [] t.fn = "bcast_children" ->
            bcast_children(a, n, t.dest, t.key, a.fut[t.dep].val, t.root)

(***************************************************************************)
(* The collective call under study and its call-level history.             *)
(*   root, dest : broadcast root / sender, and the destination of a send   *)
(*   key        : the key of the operation                                 *)
(*   val        : the value the producer deposits                          *)
(*   vfut[p]    : the Future process p hands to the operation              *)
(*   called     : the processes that have made their call                  *)
(*   sent       : the values given to send calls, in call order (NoVal: a  *)
(*                Future that was unresolved at the call)                  *)
(*   mode       : which overload was called ("value" / "future" for send,  *)
(*                "world" / "group" for lazy_sync)                         *)
(*   group      : the ordered rank list of the Group given to the call     *)
(*   gworld     : the id of the world that Group was made in               *)
(***************************************************************************)
NoCall ==
  [root |-> NoProc, dest |-> NoProc, key |-> "k1", val |-> NoVal,
   vfut |-> [p \in Procs |-> NoFut], called |-> {}, sent |-> <<>>,
   mode |-> "none", group |-> <<>>, gworld |-> WorldId]

\* LazySync state of one process for the key: made (its action is registered),
\* reports (ready-reports received from tree children); and the history
\* calls (make calls), fired (invocations of its action), early (a report
\* arrived before the local make call) and reported (ready-reports it sent to
\* its tree parent).
NoSync ==
  [p \in Procs |-> [made |-> FALSE, reports |-> 0, calls |-> 0, fired |-> 0,
                    early |-> FALSE, reported |-> 0]]

\* No foreach call is under study.
NoForeach == [kind |-> "none"]

\* No process has asked for its tree neighbours.
NoTrees == [p \in {} |-> NoProc]

InitCommon ==
  /\ cache = EmptyCache
  /\ callbacks = {}
  /\ taskq = EmptyBag
  /\ err = [p \in Procs |-> FALSE]
  /\ sets = EmptyLog
  /\ gets = EmptyLog
  /\ stats = [created |-> 0, deleted |-> 0, late |-> {}, fanout |-> EmptyBag]

(***************************************************************************)
(* SpecCache: one process using its own cache through Communicator:        *)
(* send to itself (an immediate set_cache_data) and recv, in any order.    *)
(***************************************************************************)
InitCache ==
  /\ InitCommon
  /\ fut = <<>>
  /\ np = 1
  /\ call = NoCall
  /\ sync = NoSync
  /\ groups = {}
  /\ trees = NoTrees
  /\ fe = NoForeach

CacheSend(k, v) ==
  /\ Len(call.sent) < MaxSets
  /\ Commit(send(St, 0, 0, k, v))
  /\ call' = [call EXCEPT !.sent = Append(@, v)]
  /\ UNCHANGED <<np, groups, trees, fe, sync>>

CacheRecv(k) ==
  /\ Len(gets[0][k]) < MaxGets
  /\ Commit(recv(St, 0, k).st)
  /\ UNCHANGED <<np, groups, trees, fe, call, sync>>

NextCache ==
  \/ \E k \in Keys, v \in Values : CacheSend(k, v)
  \/ \E k \in Keys : CacheRecv(k)

SpecCache == InitCache /\ [][NextCache]_vars

(***************************************************************************)
(* Claims about the cache (checked under SpecCache, process 0).            *)
(***************************************************************************)
Resolved(f, v) == fut[f].set /\ fut[f].val = v

\* A get made while the key was live: before the set, or the first one after
\* it that found the deposited value.
LiveGet(g) == g.nsets = 0 \/ g.saw \in {"value", "future"}

C6_OrderIndependent ==
  \A k \in Keys :
    LET G == gets[0][k]
        S == call.sent
        e == cache[0][k]
    IN /\ (Len(G) >= 1 /\ G[1].nsets = 0) =>
            /\ G[1].saw = "none"
            /\ Len(S) = 0 => (~fut[G[1].fut].set /\ e = PendingEntry(G[1].fut))
            /\ Len(S) >= 1 => Resolved(G[1].fut, S[1])
            /\ (Len(S) = 1 /\ \A i \in 1 .. Len(G) : G[i].nsets = 0) => e = NoEntry
       /\ (Len(S) = 1 /\ Len(G) = 0) => e = ValueEntry(S[1])
       /\ (Len(G) >= 1 /\ G[1].nsets = 1) =>
            /\ G[1].saw = "value"
            /\ Resolved(G[1].fut, S[1])
            /\ (Len(S) = 1 /\ Len(G) = 1) => e = NoEntry

\* get first, then the set: the handle went from unresolved to v.
C6_Witness ==
  \E k \in Keys :
    /\ Len(gets[0][k]) = 1 /\ gets[0][k][1].nsets = 0
    /\ Len(call.sent) = 1
    /\ Resolved(gets[0][k][1].fut, call.sent[1])
    /\ cache[0][k] = NoEntry

\* C7: a set on a key whose stored value no consumer has retrieved fails (a
\* logic error is raised) and leaves the stored value, and every future,
\* exactly as they were.
C7_SecondSetFails ==
  [][\A k \in Keys :
       (cache[0][k].kind = "value" /\ sets'[0][k] # sets[0][k]) =>
          /\ err'[0]
          /\ cache'[0][k] = cache[0][k]
          /\ fut' = fut]_vars

\* set(k, v1) then set(k, v2) with v2 # v1: the error is raised, v1 is kept.
C7_Witness ==
  \E k \in Keys :
    /\ Len(sets[0][k]) = 2
    /\ sets[0][k][1] # sets[0][k][2]
    /\ err[0]
    /\ cache[0][k] = ValueEntry(sets[0][k][1])

\* C8: once the handoff for k is complete on a process (the producer's one set
\* and the consumer's get(s), none made after the value was retrieved), that
\* process's cache holds no entry for k.
C8_EntryRemoved ==
  \A k \in Keys :
    ( /\ Len(call.sent) = 1
      /\ Len(gets[0][k]) >= 1
      /\ \A i \in 1 .. Len(gets[0][k]) : LiveGet(gets[0][k][i]) )
    => cache[0][k] = NoEntry

\* set first, one get after it: the value was retrieved and the entry is gone.
C8_Witness ==
  \E k \in Keys :
    /\ Len(call.sent) = 1
    /\ Len(gets[0][k]) = 1
    /\ gets[0][k][1].saw = "value"
    /\ cache[0][k] = NoEntry

(***************************************************************************)
(* SpecSend: one send(dest, k, .) from process call.root in a world of np  *)
(* processes, with a plain value or with the Future fut[1] (which its      *)
(* producer resolves at any time), the task it may submit, and recv(k) on  *)
(* any process, at any time.                                               *)
(***************************************************************************)
World == 0 .. (np - 1)
UserFut == 1

InitSend ==
  /\ InitCommon
  /\ np \in 2 .. MaxSendProcs
  /\ fut = <<NewFuture>>
  /\ \E src \in 0 .. (np - 1), dest \in 0 .. (np - 1), k \in Keys :
       call = [NoCall EXCEPT !.root = src, !.dest = dest, !.key = k,
                             !.vfut[src] = UserFut]
  /\ sync = NoSync
  /\ groups = {}
  /\ trees = NoTrees
  /\ fe = NoForeach

\* call.root calls send(dest, key, v), v a plain value.
SendValue(v) ==
  /\ call.mode = "none"
  /\ ~probe(fut, UserFut)
  /\ Commit(send(St, call.root, call.dest, call.key, v))
  /\ call' = [call EXCEPT !.mode = "value", !.val = v, !.sent = <<v>>]
  /\ UNCHANGED <<np, groups, trees, fe, sync>>

\* call.root calls send(dest, key, f), f the Future fut[UserFut].
SendFuture ==
  /\ call.mode = "none"
  /\ Commit(send_future(St, call.root, call.dest, call.key, UserFut))
  /\ call' = [call EXCEPT !.mode = "future", !.sent = <<fut[UserFut].val>>]
  /\ UNCHANGED <<np, groups, trees, fe, sync>>

\* The producer of fut[UserFut] resolves it (before or after the send).
SendResolve(v) ==
  /\ call.mode # "value"
  /\ ~probe(fut, UserFut)
  /\ Commit(resolve(St, UserFut, v))
  /\ call' = [call EXCEPT !.val = v]
  /\ UNCHANGED <<np, groups, trees, fe, sync>>

\* The task queue of t.dest runs the task set_cache_data(key, value).
SendRunTask(t) ==
  /\ BagIn(t, taskq)
  /\ t.fn = "set_cache_data"
  /\ Commit(set_cache_data([St EXCEPT !.taskq = @ (-) SetToBag({t})],
                           t.dest, t.key, t.val))
  /\ UNCHANGED <<np, groups, trees, fe, call, sync>>

\* Process p calls recv(key).
SendRecv(p) ==
  /\ p \in World \ call.called
  /\ Commit(recv(St, p, call.key).st)
  /\ call' = [call EXCEPT !.called = @ \cup {p}]
  /\ UNCHANGED <<np, groups, trees, fe, sync>>

NextSend ==
  \/ \E v \in Values : SendValue(v)
  \/ SendFuture
  \/ \E v \in Values : SendResolve(v)
  \/ \E t \in BagToSet(taskq) : SendRunTask(t)
  \/ \E p \in Procs : SendRecv(p)

SpecSend == InitSend /\ [][NextSend]_vars

\* Submitted tasks are eventually run by the destination's task queue.
FairSpecSend == SpecSend /\ WF_vars(\E t \in BagToSet(taskq) : SendRunTask(t))

(***************************************************************************)
(* Claims about send / recv (checked under SpecSend and FairSpecSend).     *)
(***************************************************************************)
\* The send has been made with a value that is known, and dest has called recv.
C9_Due ==
  /\ call.mode # "none"
  /\ call.mode = "value" \/ probe(fut, UserFut)
  /\ call.dest \in call.called

C9_Delivered ==
  /\ call.dest \in call.called
  /\ Resolved(gets[call.dest][call.key][1].fut, call.val)

\* The handle of recv on dest never holds anything but the value sent.
C9_OnlyValue ==
  call.dest \in call.called =>
    LET h == gets[call.dest][call.key][1].fut
    IN fut[h].set => (call.mode # "none" /\ fut[h].val = call.val)

\* No set is executed on a process other than dest, and the cache of such a
\* process holds only what its own recv put there.
C9_Frame ==
  \A q \in World \ {call.dest} :
    /\ sets[q][call.key] = <<>>
    /\ cache[q][call.key] =
         IF q \in call.called
         THEN PendingEntry(gets[q][call.key][1].fut)
         ELSE NoEntry

\* C9: after send(dest, k, v) the handle returned by recv(k) on dest
\* eventually resolves to v, whether recv is called before or after the set
\* task arrives, it never resolves to anything else, and the send changes no
\* other process's cache.
C9_PointToPoint ==
  /\ [](C9_OnlyValue /\ C9_Frame)
  /\ C9_Due ~> C9_Delivered

\* A remote send whose task found the consumer of dest already waiting.
C9_Witness ==
  /\ call.mode = "value"
  /\ call.dest # call.root
  /\ call.dest \in call.called
  /\ gets[call.dest][call.key][1].saw = "none"
  /\ Resolved(gets[call.dest][call.key][1].fut, call.val)

\* C10: a send to a remote rank with a Future that is unresolved at the call
\* is deferred.  While the Future is unresolved no set task has been
\* dispatched and exactly one callback object exists; once it is resolved,
\* exactly one set task, carrying the resolved value, has been dispatched to
\* dest (it is in flight or has run there), and the one callback object has
\* been destroyed.
C10_DeferredSend ==
  (call.mode = "future" /\ call.dest # call.root /\ call.sent = <<NoVal>>) =>
    LET d == call.dest
        k == call.key
    IN /\ \A q \in World \ {d} : sets[q][k] = <<>>
       /\ stats.created = 1
       /\ IF ~probe(fut, UserFut)
          THEN /\ taskq = EmptyBag
               /\ sets[d][k] = <<>>
               /\ callbacks = {DelayedSend(1, call.root, d, k, UserFut)}
               /\ stats.deleted = 0
          ELSE /\ BagCardinality(taskq) + Len(sets[d][k]) = 1
               /\ \A t \in BagToSet(taskq) :
                    t = Task(d, "set_cache_data", k, fut[UserFut].val, NoProc, NoFut)
               /\ \A i \in 1 .. Len(sets[d][k]) : sets[d][k][i] = fut[UserFut].val
               /\ callbacks = {}
               /\ stats.deleted = 1

\* The deferred send has fired and its task has deposited the value on dest.
C10_Witness ==
  /\ call.mode = "future"
  /\ call.dest # call.root
  /\ call.sent = <<NoVal>>
  /\ probe(fut, UserFut)
  /\ sets[call.dest][call.key] = <<fut[UserFut].val>>
  /\ stats.deleted = 1

\* What DistCache does on process p when it is given the value of the send
\* that has just been made: set_cache_data of the value, or of the Future.
C11_LocalSet ==
  IF call'.mode = "value"
  THEN set_cache_data(St, call.root, call.key, call'.val)
  ELSE set_cache_future(St, call.root, call.key, UserFut)

\* C11: a send whose destination is the calling process changes the state
\* exactly as the cache's set of the key does (value overload: the value;
\* Future overload: the Future), within the call itself: no task is
\* submitted, no callback object is created, and right after the call the
\* set is already recorded on the caller.
C11_LocalSendIsSet ==
  [][(call.mode = "none" /\ call'.mode # "none" /\ call.dest = call.root) =>
       /\ cache' = C11_LocalSet.cache
       /\ fut' = C11_LocalSet.fut
       /\ sets' = C11_LocalSet.sets
       /\ gets' = C11_LocalSet.gets
       /\ err' = C11_LocalSet.err
       /\ Len(sets'[call.root][call.key]) = 1
       /\ taskq = EmptyBag /\ taskq' = EmptyBag
       /\ callbacks' = callbacks
       /\ stats' = stats]_vars

\* A send to the caller itself found the caller's own recv waiting and
\* resolved it within the call: no task was ever submitted.
C11_Witness ==
  /\ call.mode = "value"
  /\ call.dest = call.root
  /\ call.root \in call.called
  /\ gets[call.root][call.key][1].saw = "none"
  /\ Resolved(gets[call.root][call.key][1].fut, call.val)
  /\ sets[call.root][call.key] = <<call.val>>
  /\ taskq = EmptyBag

(***************************************************************************)
(* Group (design document 3, 4.2): an ordered list g of distinct world     *)
(* ranks.  rank(p) is the position of p in the group, -1 if absent.        *)
(***************************************************************************)
group_size(g) == Len(g)

group_rank(g, p) ==
  IF \E i \in 1 .. Len(g) : g[i] = p
  THEN (CHOOSE i \in 1 .. Len(g) : g[i] = p) - 1
  ELSE NoProc

\* Faulty variant: the neighbours are not rotated back before they are
\* translated to world ranks.
make_tree_no_rotation_back(g, p, group_root) ==
  LET n == Len(g)
      me == Rotated(group_rank(g, p), group_root, n)
      world_rank(i) == IF i < n THEN g[i + 1] ELSE NoProc
  IN [parent |-> IF me = 0 THEN NoProc ELSE world_rank((me - 1) \div 2),
      child0 |-> world_rank(2 * me + 1),
      child1 |-> world_rank(2 * me + 2)]

\* Group::make_tree(parent, child0, child1, group_root) on world rank p.
make_tree(g, p, group_root) ==
  LET n == Len(g)
      me == Rotated(group_rank(g, p), group_root, n)
      world_rank(i) == IF i < n THEN g[((i + group_root) % n) + 1] ELSE NoProc
  IN [parent |-> IF me = 0 THEN NoProc ELSE world_rank((me - 1) \div 2),
      child0 |-> world_rank(2 * me + 1),
      child1 |-> world_rank(2 * me + 2)]

(***************************************************************************)
(* LazySync (design document 4.3): a fan-in / fan-out over the binary tree *)
(* of the scope.  A member reports to its parent once it has called make   *)
(* and holds the reports of all its children; the root then releases; a    *)
(* release fires the member's action, is passed on to its children and     *)
(* destroys the member's state.                                            *)
(***************************************************************************)
Sy == [sync |-> sync, taskq |-> taskq, err |-> err]

CommitSync(y) ==
  /\ sync' = y.sync
  /\ taskq' = y.taskq
  /\ err' = y.err

NumChildren(tree) ==
  (IF tree.child0 # NoProc THEN 1 ELSE 0) + (IF tree.child1 # NoProc THEN 1 ELSE 0)

SyncMsg(dest, fn, k) == Task(dest, fn, k, NoVal, NoProc, NoFut)

sync_send(y, dest, fn, k) ==
  IF dest # NoProc
  THEN [y EXCEPT !.taskq = @ (+) SetToBag({SyncMsg(dest, fn, k)})]
  ELSE y

\* Faulty variant: the state of the member outlives the release.
sync_release_keep_state(y, tree, p, k) ==
  LET a == [y EXCEPT !.sync[p].fired = @ + 1]
  IN sync_send(sync_send(a, tree.child0, "lazy_sync_children", k),
               tree.child1, "lazy_sync_children", k)

\* Release on p: invoke the action, signal the children, destroy the state.
sync_release(y, tree, p, k) ==
  LET a == [y EXCEPT !.sync[p].fired = @ + 1,
                     !.sync[p].made = FALSE,
                     !.sync[p].reports = 0]
  IN sync_send(sync_send(a, tree.child0, "lazy_sync_children", k),
               tree.child1, "lazy_sync_children", k)

\* Faulty variant: a member goes on as soon as it has called make itself,
\* without waiting for the reports of its children.
sync_progress_no_wait(y, tree, p, k) ==
  IF y.sync[p].made
  THEN IF tree.parent = NoProc
       THEN sync_release(y, tree, p, k)
       ELSE sync_send([y EXCEPT !.sync[p].reported = @ + 1], tree.parent,
                      "lazy_sync_parent", k)
  ELSE y

\* p has just called make or received a report: when both its own call and
\* all child reports are in, report to the parent, or release at the root.
sync_progress(y, tree, p, k) ==
  IF y.sync[p].made /\ y.sync[p].reports = NumChildren(tree)
  THEN IF tree.parent = NoProc
       THEN sync_release(y, tree, p, k)
       ELSE sync_send([y EXCEPT !.sync[p].reported = @ + 1], tree.parent,
                      "lazy_sync_parent", k)
  ELSE y

\* Faulty variant: a report that arrives before the local make call is dropped.
lazy_sync_parent_late_only(y, tree, p, k) ==
  IF y.sync[p].made
  THEN sync_progress([y EXCEPT !.sync[p].reports = @ + 1], tree, p, k)
  ELSE y

\* A child's ready-report arrives on p.
lazy_sync_parent(y, tree, p, k) ==
  sync_progress([y EXCEPT !.sync[p].reports = @ + 1,
                          !.sync[p].early = @ \/ ~y.sync[p].made], tree, p, k)

\* The parent's release arrives on p.
lazy_sync_children(y, tree, p, k) == sync_release(y, tree, p, k)

\* LazySync<Key, Op>::make(scope, key, op) on p.
LazySync_make(y, tree, p, k) ==
  sync_progress([y EXCEPT !.sync[p].made = TRUE, !.sync[p].calls = @ + 1],
                tree, p, k)

\* The tree of the barrier: rooted at rank 0 of the scope.
world_tree(n, p) == binary_tree_info(p, 0, n)
group_tree(g, p) == make_tree(g, p, 0)

\* Faulty variant: the action is invoked at once instead of being handed to LazySync.
lazy_sync_immediate(y, n, p, k) == [y EXCEPT !.sync[p].calls = @ + 1, !.sync[p].fired = @ + 1]

(***************************************************************************)
(* Communicator::lazy_sync(key, op) on p                                   *)
(***************************************************************************)
lazy_sync(y, n, p, k) == LazySync_make(y, world_tree(n, p), p, k)

\* Faulty variant: membership of the caller in the group is not checked.
lazy_sync_group_no_member_check(y, g, gw, p, k) ==
  IF gw # WorldId THEN [y EXCEPT !.err[p] = TRUE]
  ELSE LazySync_make(y, group_tree(g, p), p, k)

(***************************************************************************)
(* Communicator::lazy_sync(key, op, group) on p; gw is the id of the       *)
(* world the group was made in (group.get_world().id()).                   *)
(***************************************************************************)
lazy_sync_group(y, g, gw, p, k) ==
  IF gw # WorldId THEN [y EXCEPT !.err[p] = TRUE]
  ELSE IF group_rank(g, p) = NoProc THEN [y EXCEPT !.err[p] = TRUE]
  ELSE LazySync_make(y, group_tree(g, p), p, k)

(***************************************************************************)
(* SpecBcast: one world broadcast with key call.key from call.root in a    *)
(* world of np processes.  Process p passes the Future call.vfut[p]; the   *)
(* root's Future is resolved by its producer at any time, before or after  *)
(* the root's call; every process makes its call at any time.              *)
(***************************************************************************)
InitBcast ==
  /\ InitCommon
  /\ np \in 1 .. MaxProcs
  /\ fut = [i \in 1 .. np |-> NewFuture]
  /\ \E r \in 0 .. (np - 1), k \in Keys :
       call = [NoCall EXCEPT !.root = r, !.key = k,
                             !.vfut = [p \in Procs |-> IF p < np THEN p + 1 ELSE NoFut]]
  /\ sync = NoSync
  /\ groups = {}
  /\ trees = NoTrees
  /\ fe = NoForeach

Bcast(p) ==
  /\ p \in World \ call.called
  /\ Commit(bcast(St, np, p, call.key, call.vfut[p], call.root))
  /\ call' = [call EXCEPT !.called = @ \cup {p}]
  /\ UNCHANGED <<np, groups, trees, fe, sync>>

BcastResolve(v) ==
  /\ ~probe(fut, call.vfut[call.root])
  /\ Commit(resolve(St, call.vfut[call.root], v))
  /\ call' = [call EXCEPT !.val = v]
  /\ UNCHANGED <<np, groups, trees, fe, sync>>

BcastRunTask(t) ==
  /\ BagIn(t, taskq)
  /\ TaskReady(fut, t)
  /\ Commit(run_task(St, np, t))
  /\ UNCHANGED <<np, groups, trees, fe, call, sync>>

NextBcast ==
  \/ \E p \in Procs : Bcast(p)
  \/ \E v \in Values : BcastResolve(v)
  \/ \E t \in BagToSet(taskq) : BcastRunTask(t)

SpecBcast == InitBcast /\ [][NextBcast]_vars

\* Submitted tasks are eventually run by the destination's task queue.
FairSpecBcast == SpecBcast /\ WF_vars(\E t \in BagToSet(taskq) : BcastRunTask(t))

(***************************************************************************)
(* Claims about the world broadcast (SpecBcast, FairSpecBcast).            *)
(***************************************************************************)
RootFut == call.vfut[call.root]

\* The root's value is resolved and every process has made its bcast call.
C1_Started == probe(fut, RootFut) /\ call.called = World

C1_AllResolved == \A p \in World : Resolved(call.vfut[p], call.val)

\* A non-root output is never resolved before the root's value is, nor to
\* anything but the root's value.
C1_OnlyRootValue ==
  \A p \in World :
    probe(fut, call.vfut[p]) => (probe(fut, RootFut) /\ fut[call.vfut[p]].val = call.val)

\* C1: for every world size, root and interleaving of the bcast calls and the
\* broadcast tasks: once the root's value is resolved (and the processes have
\* made their bcast calls) the output Future of each non-root process
\* eventually resolves, and it resolves to exactly the root's input value.
C1_Broadcast ==
  /\ []C1_OnlyRootValue
  /\ C1_Started ~> C1_AllResolved

\* A world of at least 4 (a tree of depth 2), a root other than 0, all
\* outputs resolved to the root's value.
C1_Witness ==
  /\ np >= 4
  /\ call.root # 0
  /\ call.called = World
  /\ C1_AllResolved

\* The broadcast has run to its end: the root made its call with a resolved
\* value (or its deferred fan-out task has run) and no task is in flight.
BcastQuiet ==
  /\ call.root \in call.called
  /\ probe(fut, RootFut)
  /\ taskq = EmptyBag

\* C2: during one broadcast with key k, set_cache_data(k, value) is never
\* executed on the root and at most once on each other process, with the
\* root's value and without error; when the fan-out has run to its end it has
\* been executed exactly once on every non-root process.
C2_ExactlyOnce ==
  /\ sets[call.root][call.key] = <<>>
  /\ \A p \in World :
       /\ ~err[p]
       /\ Len(sets[p][call.key]) <= 1
       /\ \A i \in 1 .. Len(sets[p][call.key]) : sets[p][call.key][i] = call.val
  /\ BcastQuiet =>
       \A p \in World \ {call.root} : Len(sets[p][call.key]) = 1

\* The fan-out is complete in a world of at least 4 rooted away from 0.
C2_Witness ==
  /\ np >= 4
  /\ call.root # 0
  /\ BcastQuiet
  /\ \A p \in World \ {call.root} : sets[p][call.key] = <<call.val>>

\* Every process other than the root has made its bcast call and the
\* broadcast task of every such process has run.
BcastCompleted ==
  \A p \in World \ {call.root} :
    p \in call.called /\ Len(sets[p][call.key]) = 1

\* C38: once every non-root process has called bcast for the key and the
\* broadcast task of every non-root process has run, no process, root or
\* not, holds a cache entry for the key.
C38_NoResidue ==
  BcastCompleted => \A p \in Procs : cache[p][call.key] = NoEntry

\* A completed broadcast in a world of at least 4 rooted away from 0, where
\* on one process the task arrived before the bcast call and on another
\* after it.
C38_Witness ==
  /\ np >= 4 /\ call.root # 0
  /\ BcastCompleted
  /\ \E p, q \in World \ {call.root} :
       /\ gets[p][call.key][1].saw = "value"
       /\ gets[q][call.key][1].saw = "none"

(***************************************************************************)
(* SpecKeys: two operations in flight at once, one under each key of       *)
(* AllKeys.  Each is a world broadcast from its own root or a send of a    *)
(* value from its own sender to its own destination; call.ops[k] is the    *)
(* operation of key k:                                                     *)
(*   kind          : "bcast" or "send"                                     *)
(*   root, dest    : broadcast root / sender, and the destination          *)
(*   vfut[p]       : the Future process p hands to bcast                   *)
(*   called        : the processes that have made their bcast call         *)
(*   sent, handle  : send has been called; the handle recv returned        *)
(***************************************************************************)
\* The value deposited under key k: different values for different keys.
KeyValue(k) == IF k = "k1" THEN 1 ELSE NumValues

KeyFut(k, p, n) == (IF k = "k1" THEN 0 ELSE n) + p + 1

InitKeys ==
  /\ InitCommon
  /\ np \in 2 .. MaxKeyProcs
  /\ fut = [i \in 1 .. (2 * np) |-> NewFuture]
  /\ \E kinds \in [AllKeys -> {"bcast", "send"}],
        roots \in [AllKeys -> 0 .. (np - 1)],
        dests \in [AllKeys -> 0 .. (np - 1)] :
       /\ \A k \in AllKeys : kinds[k] = "bcast" => dests[k] = roots[k]
       /\ call = [mode |-> "keys",
                  ops |-> [k \in AllKeys |->
                    [kind |-> kinds[k], root |-> roots[k], dest |-> dests[k],
                     vfut |-> [p \in Procs |->
                                IF p < np THEN KeyFut(k, p, np) ELSE NoFut],
                     called |-> {}, sent |-> FALSE, handle |-> NoFut]]]
  /\ sync = NoSync
  /\ groups = {}
  /\ trees = NoTrees
  /\ fe = NoForeach

KeysBcast(k, p) ==
  /\ call.ops[k].kind = "bcast"
  /\ p \in World \ call.ops[k].called
  /\ Commit(bcast(St, np, p, k, call.ops[k].vfut[p], call.ops[k].root))
  /\ call' = [call EXCEPT !.ops[k].called = @ \cup {p}]
  /\ UNCHANGED <<np, groups, trees, fe, sync>>

KeysResolve(k) ==
  /\ call.ops[k].kind = "bcast"
  /\ ~probe(fut, call.ops[k].vfut[call.ops[k].root])
  /\ Commit(resolve(St, call.ops[k].vfut[call.ops[k].root], KeyValue(k)))
  /\ UNCHANGED <<np, groups, trees, fe, sync, call>>

KeysSend(k) ==
  /\ call.ops[k].kind = "send"
  /\ ~call.ops[k].sent
  /\ Commit(send(St, call.ops[k].root, call.ops[k].dest, k, KeyValue(k)))
  /\ call' = [call EXCEPT !.ops[k].sent = TRUE]
  /\ UNCHANGED <<np, groups, trees, fe, sync>>

KeysRecv(k) ==
  /\ call.ops[k].kind = "send"
  /\ call.ops[k].handle = NoFut
  /\ LET r == recv(St, call.ops[k].dest, k)
     IN /\ Commit(r.st)
        /\ call' = [call EXCEPT !.ops[k].handle = r.ret]
  /\ UNCHANGED <<np, groups, trees, fe, sync>>

KeysRunTask(t) ==
  /\ BagIn(t, taskq)
  /\ TaskReady(fut, t)
  /\ Commit(run_task(St, np, t))
  /\ UNCHANGED <<np, groups, trees, fe, call, sync>>

NextKeys ==
  \/ \E k \in AllKeys, p \in Procs : KeysBcast(k, p)
  \/ \E k \in AllKeys : KeysResolve(k)
  \/ \E k \in AllKeys : KeysSend(k)
  \/ \E k \in AllKeys : KeysRecv(k)
  \/ \E t \in BagToSet(taskq) : KeysRunTask(t)

SpecKeys == InitKeys /\ [][NextKeys]_vars

(***************************************************************************)
(* Claims about operations on distinct keys (SpecKeys).                    *)
(***************************************************************************)
\* The handles of the consumers of key k: the Futures the non-root processes
\* gave to bcast, or the handle recv returned.
ConsumerHandles(k) ==
  IF call.ops[k].kind = "bcast"
  THEN {call.ops[k].vfut[p] : p \in World \ {call.ops[k].root}}
  ELSE {call.ops[k].handle} \ {NoFut}

\* The operation of key k has run to its end.
KeyDone(k) ==
  /\ \A t \in BagToSet(taskq) : t.key # k
  /\ IF call.ops[k].kind = "bcast"
     THEN /\ call.ops[k].called = World
          /\ probe(fut, call.ops[k].vfut[call.ops[k].root])
     ELSE call.ops[k].sent /\ call.ops[k].handle # NoFut

\* Whatever is held or was deposited under key k is the value of key k, and
\* a handle of key k resolves to nothing else.
KeyOwnValue(k) ==
  /\ \A f \in ConsumerHandles(k) : probe(fut, f) => fut[f].val = KeyValue(k)
  /\ \A p \in World :
       /\ ~err[p]
       /\ cache[p][k].kind = "value" => cache[p][k].val = KeyValue(k)
       /\ cache[p][k].kind = "pending" => cache[p][k].fut \in ConsumerHandles(k)
       /\ \A i \in DOMAIN sets[p][k] : sets[p][k][i] = KeyValue(k)
  /\ KeyDone(k) => \A f \in ConsumerHandles(k) : Resolved(f, KeyValue(k))

\* A step without a set or get on key k.
KeyUntouched(k) ==
  \A p \in World : sets'[p][k] = sets[p][k] /\ gets'[p][k] = gets[p][k]

\* C39: with one operation in flight under each of two keys, each consumer's
\* handle resolves to the value deposited under its own key, and only to it;
\* a step sets or gets under one key at most, and it leaves the entries and
\* the consumers' handles of the other key as they were.
C39_DistinctKeys ==
  /\ [](\A k \in AllKeys : KeyOwnValue(k))
  /\ [][/\ \E k \in AllKeys : KeyUntouched(k)
        /\ \A k \in AllKeys :
             KeyUntouched(k) =>
               /\ \A p \in World : cache'[p][k] = cache[p][k]
               /\ \A f \in ConsumerHandles(k) : fut'[f] = fut[f]]_vars

\* A broadcast and a send from different roots, both run to their end, on a
\* process that was the consumer of both: one value came before its get, the
\* other after.
C39_Witness ==
  /\ call.mode = "keys"
  /\ call.ops["k1"].kind = "bcast" /\ call.ops["k2"].kind = "send"
  /\ call.ops["k1"].root # call.ops["k2"].root
  /\ KeyDone("k1") /\ KeyDone("k2")
  /\ \E p \in World :
       /\ p # call.ops["k1"].root /\ p = call.ops["k2"].dest
       /\ gets[p]["k1"] # <<>> /\ gets[p]["k2"] # <<>>
       /\ gets[p]["k1"][1].saw # gets[p]["k2"][1].saw
       /\ Resolved(call.ops["k1"].vfut[p], KeyValue("k1"))
       /\ Resolved(call.ops["k2"].handle, KeyValue("k2"))

(***************************************************************************)
(* SpecSync: one lazy sync barrier with key call.key over the whole world  *)
(* (lazy_sync(key, op)) or over a group (lazy_sync(key, op, group)); every *)
(* member makes its call once, at any time, and the reports and releases   *)
(* arrive in any order.                                                    *)
(***************************************************************************)
Ascending(S) ==
  CHOOSE s \in [1 .. Cardinality(S) -> S] : \A i, j \in 1 .. Cardinality(S) : i < j => s[i] < s[j]

Descending(S) ==
  CHOOSE s \in [1 .. Cardinality(S) -> S] : \A i, j \in 1 .. Cardinality(S) : i < j => s[i] > s[j]

\* The groups explored: every non-empty set of ranks, listed upwards or downwards.
Groups(n) ==
  LET sets_ == SUBSET (0 .. (n - 1)) \ {{}}
  IN {Ascending(S) : S \in sets_} \cup {Descending(S) : S \in sets_}

Members == {call.group[i] : i \in 1 .. Len(call.group)}

InitSync ==
  /\ InitCommon
  /\ np \in 1 .. MaxProcs
  /\ fut = <<>>
  /\ \E k \in Keys :
       \/ call = [NoCall EXCEPT !.key = k, !.mode = "world",
                                !.group = Ascending(0 .. (np - 1))]
       \/ \E g \in Groups(np) :
            call = [NoCall EXCEPT !.key = k, !.mode = "group", !.group = g]
  /\ sync = NoSync
  /\ groups = {}
  /\ trees = NoTrees
  /\ fe = NoForeach

SyncTree(p) ==
  IF call.mode = "world" THEN world_tree(np, p) ELSE group_tree(call.group, p)

\* Member p calls lazy_sync.
SyncCall(p) ==
  /\ p \in Members
  /\ sync[p].calls = 0
  /\ CommitSync(IF call.mode = "world"
                THEN lazy_sync(Sy, np, p, call.key)
                ELSE lazy_sync_group(Sy, call.group, call.gworld, p, call.key))
  /\ call' = [call EXCEPT !.called = @ \cup {p}]
  /\ UNCHANGED <<np, groups, trees, fe, cache, fut, callbacks, sets, gets, stats>>

\* A report or a release arrives at its destination.
SyncRunTask(t) ==
  /\ BagIn(t, taskq)
  /\ LET y == [Sy EXCEPT !.taskq = @ (-) SetToBag({t})]
     IN CASE t.fn = "lazy_sync_parent" ->
               CommitSync(lazy_sync_parent(y, SyncTree(t.dest), t.dest, t.key))
          [] t.fn = "lazy_sync_children" ->
               CommitSync(lazy_sync_children(y, SyncTree(t.dest), t.dest, t.key))
  /\ UNCHANGED <<np, groups, trees, fe, cache, fut, callbacks, sets, gets, stats, call>>

NextSync ==
  \/ \E p \in Procs : SyncCall(p)
  \/ \E t \in BagToSet(taskq) : SyncRunTask(t)

SpecSync == InitSync /\ [][NextSync]_vars

\* Member p calls lazy_sync with the key again: the key is reused once the
\* barrier p took part in has completed on every member.
SyncCallAgain(p) ==
  /\ p \in Members
  /\ sync[p].calls < MaxRounds
  /\ \A q \in Members : sync[q].fired >= sync[p].calls
  /\ CommitSync(IF call.mode = "world"
                THEN lazy_sync(Sy, np, p, call.key)
                ELSE lazy_sync_group(Sy, call.group, call.gworld, p, call.key))
  /\ call' = [call EXCEPT !.called = @ \cup {p}]
  /\ UNCHANGED <<np, groups, trees, fe, cache, fut, callbacks, sets, gets, stats>>

NextSyncReuse ==
  \/ \E p \in Procs : SyncCallAgain(p)
  \/ \E t \in BagToSet(taskq) : SyncRunTask(t)

SpecSyncReuse == InitSync /\ [][NextSyncReuse]_vars

\* Reports and releases in flight are eventually delivered.
FairSpecSync == SpecSync /\ WF_vars(\E t \in BagToSet(taskq) : SyncRunTask(t))

(***************************************************************************)
(* Claims about the lazy sync barrier (SpecSync, FairSpecSync).            *)
(***************************************************************************)
\* C3: the action of a member never fires in a state where some member of the
\* scope has not yet called lazy_sync with the key.
C3_BarrierSafety ==
  \A p \in Procs :
    sync[p].fired > 0 => \A q \in Members : sync[q].calls >= 1

\* An action has fired in a group of at least 3 listed downwards.
C3_Witness ==
  /\ call.mode = "group"
  /\ Len(call.group) >= 3
  /\ call.group[1] > call.group[2]
  /\ \E p \in Members : sync[p].fired = 1

\* C19: as long as some member of the scope has not called lazy_sync with
\* the key, no action has fired on any process, no error has been raised on
\* any process, and every member that has called is still registered and
\* waiting: a member that never calls leaves the others suspended for ever,
\* silently.
C19_MissingMemberBlocks ==
  (\E q \in Members : sync[q].calls = 0) =>
    /\ \A p \in Procs : sync[p].fired = 0 /\ ~err[p]
    /\ \A p \in Members : sync[p].calls = 1 => sync[p].made

\* All members of a scope of at least 3 but one have called, every report
\* has been delivered, and nothing has fired: the barrier is stuck.
C19_Witness ==
  /\ Len(call.group) >= 3
  /\ Cardinality(Members \ call.called) = 1
  /\ taskq = EmptyBag
  /\ \A p \in Members : sync[p].fired = 0
  /\ \E p \in Members : sync[p].reports > 0

\* The tree children of member p, and the messages of one kind in flight
\* to p.
SyncChildren(p) == {SyncTree(p).child0, SyncTree(p).child1} \ {NoProc}
SyncInFlight(p, fn) == {t \in BagToSet(taskq) : t.dest = p /\ t.fn = fn}

\* C32: a member has sent its ready-report to its tree parent only if it has
\* called make and the reports of all its children have reached it; the root
\* has released only if the reports of all its children have reached it; the
\* action of a member that is not the root has fired only if its parent has
\* released and that release has reached the member.
C32_TreeOrdering ==
  \A p \in Members :
    /\ sync[p].reported <= 1
    /\ (sync[p].reported = 1 \/ sync[p].fired = 1) =>
         /\ sync[p].calls = 1
         /\ \A c \in SyncChildren(p) : sync[c].reported = 1
         /\ SyncInFlight(p, "lazy_sync_parent") = {}
    /\ sync[p].reported = 1 => SyncTree(p).parent # NoProc
    /\ (sync[p].fired = 1 /\ SyncTree(p).parent # NoProc) =>
         /\ sync[p].reported = 1
         /\ sync[SyncTree(p).parent].fired = 1
         /\ SyncInFlight(p, "lazy_sync_children") = {}

\* In a world of at least 4 a member with two children has sent its report,
\* one of the two reports it waited for having overtaken its own call, and
\* the action of a leaf has fired.
C32_Witness ==
  /\ call.mode = "world" /\ np >= 4
  /\ \E p \in Members :
       /\ Cardinality(SyncChildren(p)) = 2
       /\ SyncTree(p).parent # NoProc
       /\ sync[p].reported = 1 /\ sync[p].early
  /\ \E p \in Members : SyncChildren(p) = {} /\ sync[p].fired = 1

\* C33: the LazySync state of a member is consumed when its action fires: a
\* member whose action has fired for each of its calls is not registered, and
\* once a barrier has completed on every member no member holds a report or
\* a registration and nothing is in flight; a barrier that reuses the key then
\* is a fresh one: an action fires once per call, and for the r-th time only
\* after every member has called r times.
C33_ConsumedByFiring ==
  /\ \A p \in Members :
       /\ sync[p].fired <= sync[p].calls
       /\ sync[p].fired = sync[p].calls => ~sync[p].made
       /\ \A q \in Members : sync[q].calls >= sync[p].fired
  /\ (\A p, q \in Members : sync[p].fired = sync[q].calls) =>
       /\ \A p \in Members : ~sync[p].made /\ sync[p].reports = 0
       /\ taskq = EmptyBag

\* In a scope of at least 3 the key was reused and the actions of all the
\* members have fired a second time.
C33_Witness ==
  /\ Len(call.group) >= 3
  /\ \A p \in Members : sync[p].calls = 2 /\ sync[p].fired = 2
  /\ \A p \in Members : ~sync[p].made /\ sync[p].reports = 0

C4_AllCalled == \A p \in Members : sync[p].calls = 1

C4_AllFired == \A p \in Members : sync[p].fired = 1

\* C4: when all N members call lazy_sync with the key, in any order and with
\* any interleaving of reports and releases (reports may arrive before the
\* local call), every action eventually fires; no action fires twice and no
\* process outside the scope fires.
C4_AllFireOnce ==
  /\ [](\A p \in Procs : sync[p].fired <= 1 /\ (p \notin Members => sync[p].fired = 0))
  /\ C4_AllCalled ~> C4_AllFired

\* All actions fired in a world of at least 4 where a report overtook the
\* local call of its receiver.
C4_Witness ==
  /\ call.mode = "world"
  /\ np >= 4
  /\ C4_AllFired
  /\ \E p \in Members : sync[p].early

(***************************************************************************)
(* Group broadcast (communicator.h, group_bcast_children, group_bcast_task *)
(* and the bcast overload that takes a Group).  g is the group's ordered   *)
(* rank list; known tells whether Group::get_group finds the group on the  *)
(* process (its Future<Group> is resolved).                                *)
(***************************************************************************)
\* Faulty variant: the tree neighbours are used as they come out of the heap
\* arithmetic, as ranks of the group, without the translation to world ranks.
group_bcast_children_group_ranks(s, g, p, k, v, group_root) ==
  LET tree == binary_tree_info(group_rank(g, p), group_root, Len(g))
      a == IF tree.child0 # NoProc
           THEN fan_out(s, p, Task(tree.child0, "group_bcast_task", k, v, group_root, NoFut))
           ELSE s
  IN IF tree.child1 # NoProc
     THEN fan_out(a, p, Task(tree.child1, "group_bcast_task", k, v, group_root, NoFut))
     ELSE a

(***************************************************************************)
(* Communicator::group_bcast_children, run on process p.                   *)
(***************************************************************************)
group_bcast_children(s, g, p, k, v, group_root) ==
  LET tree == make_tree(g, p, group_root)
      a == IF tree.child0 # NoProc
           THEN fan_out(s, p, Task(tree.child0, "group_bcast_task", k, v, group_root, NoFut))
           ELSE s
  IN IF tree.child1 # NoProc
     THEN fan_out(a, p, Task(tree.child1, "group_bcast_task", k, v, group_root, NoFut))
     ELSE a

\* Faulty variant: the fan-out is made only when the group is already known.
group_bcast_task_known_only(s, g, known, p, k, v, group_root) ==
  LET a == set_cache_data(s, p, k, v)
  IN IF known
     THEN group_bcast_children(a, g, p, k, v, group_root)
     ELSE [a EXCEPT !.stats.late = @ \cup {p}]

(***************************************************************************)
(* Communicator::group_bcast_task, run on process p: the value is          *)
(* deposited, then the children are served at once when the group is       *)
(* known, and by a local task that waits for the group otherwise.          *)
(* stats.late records the processes where the group was not yet known.     *)
(***************************************************************************)
group_bcast_task(s, g, known, p, k, v, group_root) ==
  LET a == set_cache_data(s, p, k, v)
  IN IF known
     THEN group_bcast_children(a, g, p, k, v, group_root)
     ELSE taskq_add([a EXCEPT !.stats.late = @ \cup {p}],
                    Task(p, "group_bcast_children", k, v, group_root, GroupFut))

\* Faulty variant: the size of the group is not looked at.
bcast_group_no_size_check(s, g, gw, p, k, f, group_root) ==
  IF gw # WorldId THEN [s EXCEPT !.err[p] = TRUE]
  ELSE IF ~(group_root >= 0 /\ group_root < group_size(g)) THEN [s EXCEPT !.err[p] = TRUE]
  ELSE IF ~(group_rank(g, p) = group_root \/ ~probe(s.fut, f)) THEN [s EXCEPT !.err[p] = TRUE]
  ELSE IF group_rank(g, p) = NoProc THEN [s EXCEPT !.err[p] = TRUE]
  ELSE IF group_rank(g, p) = group_root
       THEN IF probe(s.fut, f)
            THEN group_bcast_children(s, g, p, k, s.fut[f].val, group_root)
            ELSE taskq_add(s, Task(p, "group_bcast_children", k, NoVal, group_root, f))
       ELSE get_cache_data_into(s, p, k, f)

(***************************************************************************)
(* Communicator::bcast(key, value, group_root, group) called on process p, *)
(* value the Future f, gw the id of the group's world.  A failed TA_ASSERT *)
(* throws: the call has no other effect.                                   *)
(***************************************************************************)
bcast_group(s, g, gw, p, k, f, group_root) ==
  IF gw # WorldId THEN [s EXCEPT !.err[p] = TRUE]
  ELSE IF ~(group_root >= 0 /\ group_root < group_size(g)) THEN [s EXCEPT !.err[p] = TRUE]
  ELSE IF ~(group_rank(g, p) = group_root \/ ~probe(s.fut, f)) THEN [s EXCEPT !.err[p] = TRUE]
  ELSE IF group_rank(g, p) = NoProc THEN [s EXCEPT !.err[p] = TRUE]
  ELSE IF group_size(g) > 1
       THEN IF group_rank(g, p) = group_root
            THEN IF probe(s.fut, f)
                 THEN group_bcast_children(s, g, p, k, s.fut[f].val, group_root)
                 ELSE taskq_add(s, Task(p, "group_bcast_children", k, NoVal, group_root, f))
            ELSE get_cache_data_into(s, p, k, f)
       ELSE s

(***************************************************************************)
(* The task queue of t.dest runs task t of a world or group broadcast.  A  *)
(* task with a Future argument (the value, or the group) is run once that  *)
(* Future is resolved; G is the set of processes that know the group.      *)
(***************************************************************************)
GroupTaskReady(F, G, t) ==
  IF t.dep = NoFut THEN TRUE
  ELSE IF t.dep = GroupFut THEN t.dest \in G
  ELSE probe(F, t.dep)

group_run_task(s, n, g, G, t) ==
  LET a == [s EXCEPT !.taskq = @ (-) SetToBag({t})]
  IN CASE t.fn = "group_bcast_task" ->
            group_bcast_task(a, g, t.dest \in G, t.dest, t.key, t.val, t.root)
       [] t.fn = "group_bcast_children" ->
            group_bcast_children(a, g, t.dest, t.key,
                                 IF t.dep = GroupFut THEN t.val ELSE a.fut[t.dep].val,
                                 t.root)
       [] OTHER -> run_task(s, n, t)

(***************************************************************************)
(* SpecGroupBcast: one broadcast with key call.key over the whole world    *)
(* (call.mode = "world", call.root a world rank) or over a group           *)
(* (call.mode = "group", call.root a rank of the group) in a world of np   *)
(* processes.  Every member of the scope makes its call at any time; the   *)
(* root's Future is resolved by its producer at any time; a member         *)
(* registers the group (it becomes known to Group::get_group there) at any *)
(* time.  Processes outside the scope make no call.  The groups explored   *)
(* are those of Groups(np), rooted at their first or at their last rank.   *)
(***************************************************************************)
InitGroupBcast ==
  /\ InitCommon
  /\ np \in 1 .. MaxGroupProcs
  /\ fut = [i \in 1 .. np |-> NewFuture]
  /\ \E k \in Keys :
       LET c == [NoCall EXCEPT !.key = k,
                    !.vfut = [p \in Procs |-> IF p < np THEN p + 1 ELSE NoFut]]
       IN \/ \E r \in 0 .. (np - 1) :
               call = [c EXCEPT !.mode = "world", !.root = r,
                                !.group = Ascending(0 .. (np - 1))]
          \/ \E g \in Groups(np) : \E r \in {0, Len(g) - 1} :
               call = [c EXCEPT !.mode = "group", !.root = r, !.group = g]
  /\ sync = NoSync
  /\ groups = {}
  /\ trees = NoTrees
  /\ fe = NoForeach

\* The world rank of the root of the broadcast.
GroupRootProc == call.group[call.root + 1]

GroupRootFut == call.vfut[GroupRootProc]

\* Member p calls bcast; call.sent records the value the root passed (NoVal:
\* its Future was unresolved at the call).
GroupBcast(p) ==
  /\ p \in Members \ call.called
  /\ Commit(IF call.mode = "world"
            THEN bcast(St, np, p, call.key, call.vfut[p], call.root)
            ELSE bcast_group(St, call.group, call.gworld, p, call.key,
                             call.vfut[p], call.root))
  /\ call' = [call EXCEPT !.called = @ \cup {p},
                          !.sent = IF p = GroupRootProc
                                   THEN <<fut[call.vfut[p]].val>> ELSE @]
  /\ UNCHANGED <<np, groups, trees, fe, sync>>

\* The producer of the root's Future resolves it.
GroupResolve(v) ==
  /\ ~probe(fut, GroupRootFut)
  /\ Commit(resolve(St, GroupRootFut, v))
  /\ call' = [call EXCEPT !.val = v]
  /\ UNCHANGED <<np, groups, trees, fe, sync>>

\* Member p registers the group: Group::get_group resolves on p from now on.
\* (The root is handed the Group itself and never looks it up.)
GroupRegister(p) ==
  /\ call.mode = "group"
  /\ p \in Members \ (groups \cup {GroupRootProc})
  /\ groups' = groups \cup {p}
  /\ UNCHANGED <<np, trees, fe, cache, fut, callbacks, taskq, err, sets, gets, stats, call,
                 sync>>

GroupRunTask(t) ==
  /\ BagIn(t, taskq)
  /\ GroupTaskReady(fut, groups, t)
  /\ Commit(group_run_task(St, np, call.group, groups, t))
  /\ UNCHANGED <<np, groups, trees, fe, call, sync>>

NextGroupBcast ==
  \/ \E p \in Procs : GroupBcast(p)
  \/ \E v \in Values : GroupResolve(v)
  \/ \E p \in Procs : GroupRegister(p)
  \/ \E t \in BagToSet(taskq) : GroupRunTask(t)

SpecGroupBcast == InitGroupBcast /\ [][NextGroupBcast]_vars

(***************************************************************************)
(* Claims about the group broadcast (SpecGroupBcast).                      *)
(***************************************************************************)
\* The members other than the root: those that receive the value by a task.
GroupReceivers == Members \ {GroupRootProc}

\* Every member has called, the root's value is resolved, the group is known
\* on every receiver, and no task waits in the queue of a member.
GroupQuiet ==
  /\ call.called = Members
  /\ probe(fut, GroupRootFut)
  /\ GroupReceivers \subseteq groups
  /\ \A t \in BagToSet(taskq) : t.dest \notin Members

GroupAllResolved == \A p \in Members : Resolved(call.vfut[p], call.val)

\* The pairs (submitting process, child) of the broadcast tasks submitted so
\* far, and the number of tree hops from the root to q along them (the size
\* of the scope when q is not reached).
FanoutEdges == BagToSet(stats.fanout)

RECURSIVE FanoutHops(_, _)
FanoutHops(q, n) ==
  IF q = GroupRootProc THEN 0
  ELSE IF n = 0 \/ \A e \in FanoutEdges : e[2] # q THEN Len(call.group)
  ELSE 1 + FanoutHops((CHOOSE e \in FanoutEdges : e[2] = q)[1], n - 1)

RECURSIVE Log2(_)
Log2(n) == IF n <= 1 THEN 0 ELSE 1 + Log2(n \div 2)

\* C34: in one broadcast over a scope of P processes every process submits
\* at most 2 broadcast tasks, to distinct children (no child is served
\* twice, by the same or by another process), and every process a task was
\* submitted to is at most floor(log2(P)) tree hops away from the root.
C34_BoundedFanOut ==
  /\ \A e \in FanoutEdges : CopiesIn(e, stats.fanout) = 1 /\ e[1] # e[2]
  /\ \A e, d \in FanoutEdges : e[2] = d[2] => e = d
  /\ \A p \in Procs : Cardinality({e \in FanoutEdges : e[1] = p}) <= 2
  /\ \A e \in FanoutEdges :
       FanoutHops(e[2], Len(call.group)) <= Log2(Len(call.group))

\* A broadcast over a scope of at least 4, rooted away from its first rank,
\* has run to its end: the root served two children, and a process two hops
\* away from the root was served.
C34_Witness ==
  /\ Len(call.group) >= 4
  /\ call.root # 0
  /\ GroupQuiet
  /\ Cardinality({e \in FanoutEdges : e[1] = GroupRootProc}) = 2
  /\ \E e \in FanoutEdges : FanoutHops(e[2], Len(call.group)) = 2

\* No task is addressed to a process outside the group, and such a process
\* holds no cache entry, has seen no set and no get, and no error.
C12_OutsidersUntouched ==
  /\ \A t \in BagToSet(taskq) : t.dest \in Members
  /\ \A q \in World \ Members :
       /\ cache[q] = EmptyCache[q]
       /\ sets[q] = EmptyLog[q]
       /\ gets[q] = EmptyLog[q]
       /\ ~err[q]
       /\ ~probe(fut, call.vfut[q])

\* C12: a broadcast over a group G submits no task to a process outside G
\* and creates or changes no cache entry there; and once the members have
\* called, the root's value is resolved, the group is known on the
\* receivers and the members' queues are drained, every member's output is
\* resolved to the root's value, whatever the processes outside G do.
C12_GroupIsolation ==
  call.mode = "group" =>
    /\ C12_OutsidersUntouched
    /\ GroupQuiet => GroupAllResolved

\* A broadcast over a group of at least 3 of the ranks, listed downwards, that
\* leaves processes outside, has completed on every member.
C12_Witness ==
  /\ call.mode = "group"
  /\ Len(call.group) >= 3
  /\ call.group[1] > call.group[2]
  /\ World \ Members # {}
  /\ GroupQuiet
  /\ GroupAllResolved
  /\ \A p \in GroupReceivers : sets[p][call.key] = <<call.val>>

\* The tree children of member p in the group of the call.
GroupChildren(p) ==
  LET tree == make_tree(call.group, p, call.root)
  IN {tree.child0, tree.child1} \ {NoProc}

\* The local task that serves the children of p once p knows the group.
C13_Deferred(p) ==
  Task(p, "group_bcast_children", call.key, call.val, call.root, GroupFut)

\* While a member that received its task before it knew the group still does
\* not know it, its deposit is made, its deferred fan-out waits, and nothing
\* has reached its children.
C13_FanOutWaits ==
  \A p \in stats.late \ groups :
    /\ sets[p][call.key] = <<call.val>>
    /\ BagIn(C13_Deferred(p), taskq)
    /\ \A c \in GroupChildren(p) :
         /\ sets[c][call.key] = <<>>
         /\ \A t \in BagToSet(taskq) : t.dest # c

\* No member is given a value twice or a value other than the root's, the
\* root is given none; and when the queues are drained every receiver has
\* been given the value once and every member's output is resolved to it.
C13_ExactlyOnce ==
  /\ sets[GroupRootProc][call.key] = <<>>
  /\ \A p \in GroupReceivers :
       \/ sets[p][call.key] = <<>>
       \/ sets[p][call.key] = <<call.val>> /\ probe(fut, GroupRootFut)
  /\ GroupQuiet =>
       /\ \A p \in GroupReceivers : sets[p][call.key] = <<call.val>>
       /\ GroupAllResolved

\* C13: when group_bcast_task arrives on a member that does not know the
\* group yet, the value is deposited in that very step and no task is sent
\* to its children; the fan-out waits as a local task until the group is
\* known there; and every member is still given the root's value exactly
\* once.
C13_LateRegistration ==
  /\ [](call.mode = "group" => C13_FanOutWaits /\ C13_ExactlyOnce)
  /\ [][\A p \in stats'.late \ stats.late :
          /\ p \notin groups
          /\ sets'[p][call.key] = Append(sets[p][call.key], call.val)
          /\ \A t \in BagToSet(taskq') :
               BagIn(t, taskq) \/ t = C13_Deferred(p)]_vars

\* A member with a child received its task before it knew the group, and
\* the broadcast has nevertheless completed, one deposit per receiver.
C13_Witness ==
  /\ call.mode = "group"
  /\ \E p \in stats.late : GroupChildren(p) # {}
  /\ GroupQuiet
  /\ GroupAllResolved
  /\ \A p \in GroupReceivers : sets[p][call.key] = <<call.val>>

\* The task the root queues on itself when its value is unresolved.
C14_Deferred ==
  Task(GroupRootProc,
       IF call.mode = "world" THEN "bcast_children" ELSE "group_bcast_children",
       call.key, NoVal, call.root, GroupRootFut)

\* C14: when the root calls bcast with an unresolved value, nothing is
\* deposited on any process and no task but the root's own waiting task
\* exists for as long as the value is unresolved; once it is resolved the
\* fan-out runs as for a resolved value: no receiver is given anything but
\* the resolved value, none is given it twice, and when the queues are
\* drained every receiver has been given it once and every output holds it.
C14_DeferredBcast ==
  call.sent = <<NoVal>> =>
    IF ~probe(fut, GroupRootFut)
    THEN /\ \A p \in World : sets[p][call.key] = <<>>
         /\ \A p \in Members : ~probe(fut, call.vfut[p])
         /\ taskq = IF Len(call.group) > 1 THEN SetToBag({C14_Deferred}) ELSE EmptyBag
    ELSE /\ \A p \in World \ GroupReceivers : sets[p][call.key] = <<>>
         /\ \A p \in GroupReceivers : sets[p][call.key] \in {<<>>, <<call.val>>}
         /\ GroupQuiet =>
              /\ \A p \in GroupReceivers : sets[p][call.key] = <<call.val>>
              /\ GroupAllResolved

\* The root called with an unresolved value, in a scope of at least 3; the
\* value was resolved later and has reached every receiver.
C14_Witness ==
  /\ call.sent = <<NoVal>>
  /\ Len(call.group) >= 3
  /\ GroupQuiet
  /\ GroupAllResolved
  /\ \A p \in GroupReceivers : sets[p][call.key] = <<call.val>>

(***************************************************************************)
(* SpecArgs: the argument checks of the collective calls.  In a world of   *)
(* np processes every process makes one call with the arguments of         *)
(* call: bcast(key, value, root) (call.mode = "world"), bcast(key, value,  *)
(* group_root, group) ("group") or lazy_sync(key, op, group) ("sync").     *)
(* The arguments are arbitrary: the root may lie outside the scope, the    *)
(* value Future of a process may already be resolved, the caller need not  *)
(* be a member of the group, and the group may have been made in another   *)
(* world.  The group is known on its members from the start; tasks that    *)
(* are ready are run.                                                      *)
(***************************************************************************)
InitArgs ==
  /\ InitCommon
  /\ np \in 1 .. MaxArgProcs
  /\ \E v \in Values : \E R \in SUBSET (0 .. (np - 1)) :
       /\ fut = [i \in 1 .. np |-> IF (i - 1) \in R THEN ReadyFuture(v) ELSE NewFuture]
       /\ \E k \in Keys :
            LET c == [NoCall EXCEPT !.key = k, !.val = v,
                         !.vfut = [p \in Procs |-> IF p < np THEN p + 1 ELSE NoFut]]
            IN \/ \E r \in NoProc .. np :
                    call = [c EXCEPT !.mode = "world", !.root = r,
                                     !.group = Ascending(0 .. (np - 1))]
               \/ \E g \in Groups(np) : \E r \in NoProc .. Len(g) :
                    \E gw \in {WorldId, WorldId + 1} :
                      call = [c EXCEPT !.mode = "group", !.root = r, !.group = g,
                                       !.gworld = gw]
               \/ \E g \in Groups(np) : \E gw \in {WorldId, WorldId + 1} :
                    call = [c EXCEPT !.mode = "sync", !.group = g, !.gworld = gw]
  /\ sync = NoSync
  /\ groups = Members
  /\ trees = NoTrees
  /\ fe = NoForeach

\* Process p makes its call.
ArgsCall(p) ==
  /\ p \in World \ call.called
  /\ call' = [call EXCEPT !.called = @ \cup {p}]
  /\ IF call.mode = "sync"
     THEN /\ CommitSync(lazy_sync_group(Sy, call.group, call.gworld, p, call.key))
          /\ UNCHANGED <<np, groups, trees, fe, cache, fut, callbacks, sets, gets, stats>>
     ELSE /\ Commit(IF call.mode = "world"
                    THEN bcast(St, np, p, call.key, call.vfut[p], call.root)
                    ELSE bcast_group(St, call.group, call.gworld, p, call.key,
                                     call.vfut[p], call.root))
          /\ UNCHANGED <<np, groups, trees, fe, sync>>

\* The task queue of t.dest runs a task that is ready.
ArgsRunTask(t) ==
  \/ /\ t.fn \in {"lazy_sync_parent", "lazy_sync_children"}
     /\ SyncRunTask(t)
  \/ /\ t.fn \notin {"lazy_sync_parent", "lazy_sync_children"}
     /\ GroupRunTask(t)

NextArgs ==
  \/ \E p \in Procs : ArgsCall(p)
  \/ \E t \in BagToSet(taskq) : ArgsRunTask(t)

SpecArgs == InitArgs /\ [][NextArgs]_vars

(***************************************************************************)
(* Claims about the argument checks (SpecArgs).                            *)
(***************************************************************************)
\* This step is the call of process p.
ArgsCalls(p) == p \notin call.called /\ p \in call'.called

\* The step submits no task, creates, changes and reads no cache entry,
\* resolves no Future and registers nothing with LazySync.
ArgsNoEffect ==
  /\ taskq' = taskq
  /\ cache' = cache
  /\ sets' = sets
  /\ gets' = gets
  /\ fut' = fut
  /\ callbacks' = callbacks
  /\ sync' = sync

C15_InvalidRoot ==
  \/ call.mode = "world" /\ (call.root < 0 \/ call.root >= np)
  \/ call.mode = "group" /\ (call.root < 0 \/ call.root >= Len(call.group))

\* C15: a bcast whose root is negative or not below the size of the world
\* (a group_root negative or not below the size of the group) fails on the
\* calling process, whichever it is and whatever the size of the world, and
\* the call submits no task and creates or reads no cache entry.
C15_InvalidRootRejected ==
  [][\A p \in World :
       (ArgsCalls(p) /\ C15_InvalidRoot) => (err'[p] /\ ArgsNoEffect)]_vars

\* In a world of one process, bcast with root = 1 has failed and left nothing.
C15_Witness ==
  /\ np = 1
  /\ call.mode = "world"
  /\ call.root = np
  /\ call.called = World
  /\ \A p \in World : err[p]
  /\ cache = EmptyCache
  /\ gets = EmptyLog
  /\ taskq = EmptyBag

\* C16: in bcast(key, value, root) with a valid root, a process other than
\* the root that passes an already resolved value fails, and its cache and
\* its value are left as they were; on the root a resolved value is
\* accepted, and in a world of more than one process it is sent on to the
\* root's children.
C16_ResolvedNonRootRejected ==
  [][\A p \in World :
       (/\ ArgsCalls(p)
        /\ call.mode = "world"
        /\ call.root \in World
        /\ probe(fut, call.vfut[p])) =>
         IF p # call.root
         THEN err'[p] /\ ArgsNoEffect
         ELSE /\ ~err'[p]
              /\ taskq' = bcast_children(St, np, p, call.key, fut[call.vfut[p]].val,
                                         call.root).taskq
              /\ np > 1 => taskq' # taskq
              /\ cache' = cache /\ fut' = fut /\ gets' = gets]_vars

\* A non-root process was refused with its resolved value, and the root was
\* accepted with its own.
C16_Witness ==
  /\ call.mode = "world"
  /\ call.root \in World
  /\ call.called = World
  /\ \A p \in World : probe(fut, call.vfut[p])
  /\ \E p \in World : p # call.root /\ err[p] /\ cache[p] = EmptyCache[p]
  /\ ~err[call.root]

\* The call of p is a broadcast over a scope of one process that meets its
\* preconditions: the world of size 1 with root 0, or a group of this world
\* of size 1 with group_root 0 whose one member is p.
C17_Trivial(p) ==
  \/ call.mode = "world" /\ np = 1 /\ call.root = 0
  \/ /\ call.mode = "group"
     /\ Len(call.group) = 1
     /\ call.root = 0
     /\ call.gworld = WorldId
     /\ p \in Members

\* C17: a broadcast over a scope of size 1 that meets its preconditions
\* does nothing: no error, no task, no cache entry, and the caller's value
\* Future is left as it was, resolved or not.
C17_TrivialBcast ==
  [][\A p \in World :
       (ArgsCalls(p) /\ C17_Trivial(p)) => (~err'[p] /\ ArgsNoEffect)]_vars

\* The one member of a group of size 1, in a larger world, has called with
\* an unresolved value: nothing was queued and nothing was stored.
C17_Witness ==
  /\ call.mode = "group"
  /\ np > 1
  /\ Len(call.group) = 1
  /\ call.root = 0
  /\ call.gworld = WorldId
  /\ Members \subseteq call.called
  /\ \A p \in Members : ~err[p] /\ ~probe(fut, call.vfut[p])
  /\ taskq = EmptyBag
  /\ cache = EmptyCache

\* C18: lazy_sync(key, op, group) and bcast(key, value, group_root, group)
\* fail on a caller that is not a member of the group, and on any caller
\* when the group was made in a world other than the communicator's; the
\* failed call registers no barrier action, touches no cache entry and
\* submits no task.
C18_GroupRejected ==
  [][\A p \in World :
       (/\ ArgsCalls(p)
        /\ call.mode \in {"group", "sync"}
        /\ (p \notin Members \/ call.gworld # WorldId)) =>
         (err'[p] /\ ArgsNoEffect)]_vars

\* A process outside the group called lazy_sync with the group and failed,
\* with no barrier state of its own, while a member's call was accepted.
C18_Witness ==
  /\ call.mode = "sync"
  /\ call.gworld = WorldId
  /\ \E p \in call.called \ Members : err[p] /\ sync[p] = NoSync[p]
  /\ \E q \in call.called \cap Members : ~err[q] /\ sync[q].calls = 1

(***************************************************************************)
(* SpecTree: Group::make_tree as a function of its inputs.  A group of     *)
(* Groups(np) and a group_root are picked; every member asks for its       *)
(* neighbours, in any order, and trees[p] keeps what member p was given.   *)
(***************************************************************************)
InitTree ==
  /\ InitCommon
  /\ np \in 1 .. MaxProcs
  /\ fut = <<>>
  /\ \E g \in Groups(np) : \E r \in 0 .. (Len(g) - 1) :
       call = [NoCall EXCEPT !.mode = "group", !.group = g, !.root = r]
  /\ sync = NoSync
  /\ groups = {}
  /\ trees = NoTrees
  /\ fe = NoForeach

\* Member p calls group.make_tree(parent, child0, child1, group_root).
TreeMake(p) ==
  /\ p \in Members \ DOMAIN trees
  /\ trees' = [q \in DOMAIN trees \cup {p} |->
                IF q = p THEN make_tree(call.group, p, call.root) ELSE trees[q]]
  /\ UNCHANGED <<np, groups, fe, cache, fut, callbacks, taskq, err, sets, gets, stats,
                 call, sync>>

NextTree == \E p \in Procs : TreeMake(p)

SpecTree == InitTree /\ [][NextTree]_vars

(***************************************************************************)
(* Claim about Group::make_tree (SpecTree).                                *)
(***************************************************************************)
\* The world rank of the member with rotated index i (NoProc: no such member).
C20_Member(i) ==
  IF i >= 0 /\ i < Len(call.group)
  THEN call.group[((i + call.root) % Len(call.group)) + 1]
  ELSE NoProc

\* The members that were given q as a child.
C20_ParentsOf(q) ==
  {p \in DOMAIN trees : q \in {trees[p].child0, trees[p].child1}}

\* C20: make_tree(group_root) gives the member with rotated index i the
\* parent at rotated index (i-1)/2 (none when i = 0) and the children at
\* rotated indices 2i+1 and 2i+2 (none where that is not below the size),
\* all as world ranks; j is a child of i exactly when i is the parent of j;
\* every member but the root has exactly one parent, the root has none.
C20_RotatedHeap ==
  /\ \A i \in 0 .. (Len(call.group) - 1) :
       C20_Member(i) \in DOMAIN trees =>
         /\ trees[C20_Member(i)].parent =
              (IF i = 0 THEN NoProc ELSE C20_Member((i - 1) \div 2))
         /\ trees[C20_Member(i)].child0 = C20_Member(2 * i + 1)
         /\ trees[C20_Member(i)].child1 = C20_Member(2 * i + 2)
  /\ \A p, q \in DOMAIN trees : q \in C20_ParentsOf(p) <=> trees[p].parent = q
  /\ DOMAIN trees = Members =>
       /\ \A q \in GroupReceivers : Cardinality(C20_ParentsOf(q)) = 1
       /\ C20_ParentsOf(GroupRootProc) = {}
       /\ trees[GroupRootProc].parent = NoProc

\* Every member of a group of at least 4 ranks, listed downwards and rooted
\* at neither its first nor its last rank, has been given its neighbours.
C20_Witness ==
  /\ Len(call.group) >= 4
  /\ call.group[1] > call.group[2]
  /\ call.root > 0 /\ call.root < Len(call.group) - 1
  /\ DOMAIN trees = Members

(***************************************************************************)
(* ForeachEngine (conversions/foreach.h).  foreach spawns its per-tile      *)
(* tasks on the calling process only, so the model follows the call of one  *)
(* process, fe.me, of a world of np processes; every process is a possible  *)
(* caller.  A tile is a handle to a storage cell; all elements of a tile    *)
(* have one value, kept in fe.store.                                        *)
(***************************************************************************)
Tiles == 0 .. (NumTiles - 1)

\* The default-constructed tile: a handle without storage.
NoTile == 0
\* The storage behind tile i of operand a (a = 1: arg, a = 2: args...).
TileOf(a, i) == (a - 1) * NumTiles + i + 1
\* The storage of the tile a task default-constructs for index i.
ResultTileOf(i) == 2 * NumTiles + i + 1
Storage == 1 .. (3 * NumTiles)

\* The threshold of the result's sparse shape: a tile whose magnitude is
\* below it is zero.
Threshold == 1

\* The two process maps of the arrays: round-robin and contiguous blocks.
CyclicPmap(n) == [i \in Tiles |-> i % n]
BlockedPmap(n) == [i \in Tiles |-> (i * n) \div NumTiles]
Pmaps(n) == {CyclicPmap(n), BlockedPmap(n)}

RECURSIVE Ascending_(_)
Ascending_(S) ==
  IF S = {} THEN <<>>
  ELSE LET m == CHOOSE x \in S : \A y \in S : x <= y
       IN <<m>> \o Ascending_(S \ {m})

\* Faulty variant: the iteration visits every tile of the array.
pmap_begin_end_all(pm, p) == Ascending_(Tiles)

\* *(arg.pmap()): the indices the process map gives to process p, in order.
pmap_begin_end(pm, p) == Ascending_({i \in Tiles : pm[i] = p})

\* The pending result of the task of one index.
NoResult == [state |-> "none", tile |-> NoTile]
PendingResult == [state |-> "pending", tile |-> NoTile]
ReadyResult(t) == [state |-> "ready", tile |-> t]
FailedResult == [state |-> "failed", tile |-> NoTile]

\* A foreach call of process p in a world of n: the operand arrays (their
\* process map pm, whether their tiled ranges agree, their zero tiles Z[a],
\* the element values v1 + i and v2 + i of their tiles i), the transform (a
\* closure that captured plus, adds 1 to every element when plus holds and
\* fails on the tiles in bad; temp: the closure is a temporary of the calling
\* expression) and whether a task submitted before the call is still reading
\* the tiles of arg.
ForeachCall(kind, policy, p, pm, nargs, same, inplace, fence, plus, temp, Z, bad, v1, v2, reader) ==
  [kind |-> kind, policy |-> policy, me |-> p, pmap |-> pm, nargs |-> nargs,
   same_trange |-> same, inplace |-> inplace, fence |-> fence, plus |-> plus,
   op_temporary |-> temp,
   zero |-> Z, bad |-> bad,
   trange |-> <<1, IF same THEN 1 ELSE 2>>, v |-> <<v1, v2>>,
   store |-> [t \in Storage |->
                IF t <= NumTiles THEN v1 + (t - 1)
                ELSE IF t <= 2 * NumTiles THEN v2 + (t - NumTiles - 1) ELSE 0],
   pc |-> "start", todo |-> <<>>, task_count |-> 0, counter |-> 0,
   tile_norms |-> [i \in Tiles |-> 0], tiles |-> <<>>,
   rfut |-> [i \in Tiles |-> NoResult],
   built |-> FALSE, rtrange |-> 0, rpmap |-> <<>>, shape |-> {}, result |-> {},
   assigned |-> FALSE,
   round |-> 1, first |-> [i \in Tiles |-> 0],
   raised |-> FALSE, reader |-> reader, fences |-> 0, spawned |-> <<>>,
   fetched |-> {}, subst |-> {}, skipped |-> {}]

\* compare_trange: do the tiled ranges of all the operands agree?
compare_trange(f) == f.nargs = 1 \/ f.same_trange

\* array.is_zero(index)
is_zero(f, a, i) == i \in f.zero[a]

\* The element value of the tile handed to the task for operand a: the
\* default tile holds nothing.
ArgValue(f, a, i) == IF is_zero(f, a, i) THEN 0 ELSE f.store[TileOf(a, i)]

\* The tasks hold the transform by reference ([&op]).  The closure is alive
\* while the call has not returned, and afterwards unless it was a temporary
\* of the calling expression.
OpAlive(f) == f.pc # "done" \/ ~f.op_temporary

\* What a task may read as the closure's captured plus: the captured value
\* while the closure is alive, anything once it is destroyed.
Captured(f) == IF OpAlive(f) THEN {f.plus} ELSE BOOLEAN

\* The user's transform on the element values: it doubles the elements of its
\* only operand, or adds those of its two operands, and adds 1 when the plus
\* it reads from its closure, c, holds.
op(f, i, c) ==
  (IF f.nargs = 1 THEN 2 * ArgValue(f, 1, i)
   ELSE ArgValue(f, 1, i) + ArgValue(f, 2, i))
  + (IF c THEN 1 ELSE 0)

\* Faulty variant: the in-place helper works on a copy of the tile.
void_op_helper_clone(f, i, c) ==
  [tile |-> ResultTileOf(i), value |-> op(f, i, c)]

\* void_op_helper: a new call default-constructs the result tile and lets op
\* fill it; an in-place call lets op modify the tile of arg and returns that
\* tile, a shallow copy sharing its storage.
void_op_helper(f, i, c) ==
  [tile |-> IF f.inplace THEN TileOf(1, i) ELSE ResultTileOf(i),
   value |-> op(f, i, c)]

\* result.set(index, tile) keeps the pair of the index and of the index whose
\* task computes the tile.
ResultIndices(f) == {r[1] : r \in f.result}

\* The tile the result holds at index i (NoTile: none, or not yet computed).
ResultTile(f, i) ==
  IF \E r \in f.result : r[1] = i /\ f.rfut[r[2]].state = "ready"
  THEN f.rfut[(CHOOSE r \in f.result :
                 r[1] = i /\ f.rfut[r[2]].state = "ready")[2]].tile
  ELSE NoTile

\* The tile array A holds at index i: arg's own tile until arg is assigned
\* the result of the in-place call.
ArgTile(f, i) ==
  IF ~f.assigned THEN TileOf(1, i)
  ELSE ResultTile(f, i)

\* world.gop.fence() returns once the work submitted before it has completed.
gop_fence(f) == ~f.reader

\* Faulty variant: foreach_inplace goes on to the tiles without a fence.
foreach_enter_unfenced(f) ==
  [f EXCEPT !.pc = "loop",
            !.built = (f.kind = "dense"),
            !.rtrange = IF f.kind = "dense" THEN f.trange[1] ELSE @,
            !.rpmap = IF f.kind = "dense" THEN f.pmap ELSE @,
            !.todo = pmap_begin_end(f.pmap, f.me)]

\* foreach_inplace before detail::foreach: `if(fence) arg.world().gop.fence()`;
\* foreach has no fence.  The dense detail::foreach then constructs its result
\* from the tiled range and the process map of arg.
foreach_enter(f) ==
  [f EXCEPT !.pc = "loop",
            !.built = (f.kind = "dense"),
            !.rtrange = IF f.kind = "dense" THEN f.trange[1] ELSE @,
            !.rpmap = IF f.kind = "dense" THEN f.pmap ELSE @,
            !.todo = pmap_begin_end(f.pmap, f.me),
            !.fences = IF f.inplace /\ f.fence THEN @ + 1 ELSE @]

\* One iteration of the loop of the dense detail::foreach: a task for the
\* index, given the tiles of all operands, and its future set in the result.
foreach_dense_step(f) ==
  LET i == Head(f.todo)
  IN [f EXCEPT !.todo = Tail(@), !.spawned = Append(@, i),
               !.fetched = @ \cup {<<a, i>> : a \in 1 .. f.nargs},
               !.rfut[i] = PendingResult,
               !.result = @ \cup {<<i, i>>}]

\* The dense detail::foreach returns its result; foreach_inplace assigns it
\* to arg.
foreach_dense_return(f) ==
  [f EXCEPT !.pc = "done", !.assigned = f.inplace]

\* The task of the dense detail::foreach for index i: op_caller on the tiles.
\* A transform that fails leaves the failure in the task's future.
foreach_dense_task(f, i, c) ==
  IF i \in f.bad THEN [f EXCEPT !.rfut[i] = FailedResult]
  ELSE LET r == void_op_helper(f, i, c)
       IN [f EXCEPT !.store[r.tile] = r.value, !.rfut[i] = ReadyResult(r.tile)]

ForeachTask(f, i) == Task(f.me, "foreach", "k1", i, NoProc, NoFut)

ForeachUnchanged ==
  UNCHANGED <<np, groups, trees, cache, fut, callbacks, err, sets, gets, stats,
              call, sync>>

InitForeachCommon ==
  /\ InitCommon
  /\ fut = <<>>
  /\ call = NoCall
  /\ sync = NoSync
  /\ groups = {}
  /\ trees = NoTrees

\* A dense foreach or foreach_inplace call, of one or two arrays.
InitForeach ==
  /\ InitForeachCommon
  /\ np \in 1 .. MaxForeachProcs
  /\ \E p \in 0 .. (np - 1), pm \in Pmaps(np), nargs \in 1 .. 2,
        same, inplace, fence, plus, temp, reader \in BOOLEAN,
        bad \in {{}} \cup {{i} : i \in Tiles}, v1, v2 \in Values :
       /\ bad \subseteq {i \in Tiles : pm[i] = p}
       /\ nargs = 1 => same /\ v2 = 1
       /\ ~inplace => fence /\ ~reader
       /\ fe = ForeachCall("dense", "none", p, pm, nargs, same, inplace, fence,
                           plus, temp, <<{}, {}>>, bad, v1, v2, reader)

\* The caller applies foreach to the same arrays with the same transform a
\* second time, once the first result is complete: the elements of the first
\* result are remembered, the second call starts afresh and makes its own
\* tiles.  The closure is passed anew and is alive during the call.
foreach_again(f) ==
  [f EXCEPT !.round = 2,
            !.first = [i \in Tiles |->
                         IF ResultTile(f, i) # NoTile
                         THEN f.store[ResultTile(f, i)] ELSE 0],
            !.store = [t \in Storage |-> IF t > 2 * NumTiles THEN 0 ELSE @[t]],
            !.pc = "start", !.todo = <<>>, !.spawned = <<>>, !.fetched = {},
            !.rfut = [i \in Tiles |-> NoResult],
            !.built = FALSE, !.rtrange = 0, !.rpmap = <<>>, !.result = {}]

\* A foreach (not in place) call of one or two arrays with agreeing tiled
\* ranges, whose transform does not fail.
InitRepeat ==
  /\ InitForeachCommon
  /\ np \in 1 .. MaxForeachProcs
  /\ \E p \in 0 .. (np - 1), pm \in Pmaps(np), nargs \in 1 .. 2,
        plus, temp \in BOOLEAN, v1, v2 \in Values :
       /\ nargs = 1 => v2 = 1
       /\ fe = ForeachCall("dense", "none", p, pm, nargs, TRUE, FALSE, TRUE,
                           plus, temp, <<{}, {}>>, {}, v1, v2, FALSE)

ForeachAgain ==
  /\ fe.kind = "dense" /\ fe.round = 1 /\ fe.pc = "done"
  /\ taskq = EmptyBag
  /\ fe' = foreach_again(fe)
  /\ UNCHANGED taskq
  /\ ForeachUnchanged

\* The task submitted before the call completes.
ForeachReader ==
  /\ fe.reader
  /\ fe' = [fe EXCEPT !.reader = FALSE]
  /\ UNCHANGED taskq
  /\ ForeachUnchanged

ForeachEnter ==
  /\ fe.pc = "start"
  /\ (fe.inplace /\ fe.fence) => gop_fence(fe)
  /\ fe' = foreach_enter(fe)
  /\ UNCHANGED taskq
  /\ ForeachUnchanged

ForeachDenseStep ==
  /\ fe.kind = "dense" /\ fe.pc = "loop" /\ fe.todo # <<>>
  /\ fe' = foreach_dense_step(fe)
  /\ taskq' = taskq (+) SetToBag({ForeachTask(fe, Head(fe.todo))})
  /\ ForeachUnchanged

ForeachDenseReturn ==
  /\ fe.kind = "dense" /\ fe.pc = "loop" /\ fe.todo = <<>>
  /\ fe' = foreach_dense_return(fe)
  /\ UNCHANGED taskq
  /\ ForeachUnchanged

ForeachDenseTask(t) ==
  /\ fe.kind = "dense" /\ t.fn = "foreach"
  /\ \E c \in Captured(fe) : fe' = foreach_dense_task(fe, t.val, c)
  /\ taskq' = taskq (-) SetToBag({t})
  /\ ForeachUnchanged

NextForeach ==
  \/ ForeachReader
  \/ ForeachEnter
  \/ ForeachDenseStep
  \/ ForeachDenseReturn
  \/ \E t \in BagToSet(taskq) : ForeachDenseTask(t)

SpecForeach == InitForeach /\ [][NextForeach]_vars

NextRepeat ==
  \/ ForeachEnter
  \/ ForeachDenseStep
  \/ ForeachDenseReturn
  \/ \E t \in BagToSet(taskq) : ForeachDenseTask(t)
  \/ ForeachAgain

SpecRepeat == InitRepeat /\ [][NextRepeat]_vars

(***************************************************************************)
(* The sparse detail::foreach.                                              *)
(***************************************************************************)
\* The future DistArray::find returns for a tile the array does not hold: no
\* one ever sets it.
AbsentTileFut == 1

\* The is_zero list {arg.is_zero(index), args.is_zero(index)...}.
is_zero_list(f, i) == [a \in 1 .. f.nargs |-> is_zero(f, a, i)]

is_zero_intersection(zs) == \E a \in DOMAIN zs : zs[a]

is_zero_union(zs) == \A a \in DOMAIN zs : zs[a]

\* The operands a task for index i fetches with find: all of them under the
\* intersection policy; under the union policy get_sparse_tile fetches the
\* non-zero ones and substitutes a default tile for the others.
Fetched(f, i) ==
  {a \in 1 .. f.nargs : f.policy = "intersection" \/ ~is_zero(f, a, i)}

\* The loops' `if(! is_zero_...({...})) continue;`: is index i skipped?
sparse_continue(f, i) ==
  IF f.policy = "intersection" THEN ~is_zero_intersection(is_zero_list(f, i))
  ELSE ~is_zero_union(is_zero_list(f, i))

\* The outcomes of one iteration's find calls: finding a tile the array does
\* not hold either fails the array's non-zero check, or, in a build without
\* that check, returns a future that is never set.
FindOutcomes(f, i) ==
  IF \E a \in Fetched(f, i) : is_zero(f, a, i) THEN {"raise", "pending"}
  ELSE {"ready"}

\* One iteration of the loop of the sparse detail::foreach, find ending as out.
foreach_sparse_step(f, out) ==
  LET i == Head(f.todo)
  IN IF sparse_continue(f, i)
     THEN [f EXCEPT !.todo = Tail(@), !.skipped = @ \cup {i}]
     ELSE IF out = "raise"
     THEN [f EXCEPT !.pc = "failed", !.raised = TRUE,
                    !.fetched = @ \cup {<<a, i>> : a \in Fetched(f, i)}]
     ELSE [f EXCEPT !.todo = Tail(@), !.spawned = Append(@, i),
                    !.fetched = @ \cup {<<a, i>> : a \in Fetched(f, i)},
                    !.subst = @ \cup {<<a, i>> : a \in (1 .. f.nargs) \ Fetched(f, i)},
                    !.rfut[i] = PendingResult,
                    !.task_count = @ + 1,
                    !.tiles = Append(@, <<i, i>>)]

\* The task the iteration adds, waiting for the tiles it was given.
SparseTask(f, out) ==
  Task(f.me, "foreach", "k1", Head(f.todo), NoProc,
       IF out = "pending" THEN AbsentTileFut ELSE NoFut)

\* nonvoid_op_helper: as void_op_helper, and the value op returns, the
\* magnitude of the tile, goes to op_result.  The default tile substituted
\* for a zero tile of arg has a storage of its own.
nonvoid_op_helper(f, i, c) ==
  [tile |-> IF f.inplace /\ ~is_zero(f, 1, i) THEN TileOf(1, i)
            ELSE ResultTileOf(i),
   value |-> op(f, i, c), op_result |-> op(f, i, c)]

\* Faulty variant: every task writes its magnitude in the slot of the first
\* pending tile.
foreach_sparse_task_first_slot(f, i, c) ==
  IF i \in f.bad THEN [f EXCEPT !.rfut[i] = FailedResult]
  ELSE LET r == nonvoid_op_helper(f, i, c)
       IN [f EXCEPT !.store[r.tile] = r.value,
                    !.tile_norms[f.tiles[1][1]] = r.op_result,
                    !.counter = @ + 1,
                    !.rfut[i] = ReadyResult(r.tile)]

\* The task of the sparse detail::foreach for index i: op_caller writes
\* tile_norms[index], then the counter is incremented.  A transform that fails
\* leaves the task before the increment, its failure in the task's future.
foreach_sparse_task(f, i, c) ==
  IF i \in f.bad THEN [f EXCEPT !.rfut[i] = FailedResult]
  ELSE LET r == nonvoid_op_helper(f, i, c)
       IN [f EXCEPT !.store[r.tile] = r.value,
                    !.tile_norms[i] = r.op_result,
                    !.counter = @ + 1,
                    !.rfut[i] = ReadyResult(r.tile)]

\* Faulty variant: the issuing flow does not wait for the counter.
await_counter_skipped(f) == TRUE

\* if(task_count > 0) world.await(counter == task_count): may the issuing
\* flow go on?
await_counter(f) == f.task_count > 0 => f.counter = f.task_count

\* The shape made of the magnitudes: the non-zero tiles are those whose
\* magnitude reaches the threshold.
shape_type(norms) == {i \in Tiles : norms[i] >= Threshold}

\* Faulty variant: every pending tile is committed.
foreach_sparse_commit_all(f) ==
  [f EXCEPT !.pc = "done", !.built = TRUE,
            !.rtrange = f.trange[1], !.rpmap = f.pmap,
            !.shape = shape_type(f.tile_norms),
            !.result = {f.tiles[k] : k \in DOMAIN f.tiles},
            !.assigned = f.inplace]

\* After the wait: the result is constructed with the shape made of
\* tile_norms, the pending tiles of its non-zero indices are set in it, and it
\* is returned (and assigned to arg by foreach_inplace).
foreach_sparse_commit(f) ==
  [f EXCEPT !.pc = "done", !.built = TRUE,
            !.rtrange = f.trange[1], !.rpmap = f.pmap,
            !.shape = shape_type(f.tile_norms),
            !.result = {f.tiles[k] : k \in
                          {l \in DOMAIN f.tiles :
                             f.tiles[l][1] \in shape_type(f.tile_norms)}},
            !.assigned = f.inplace]

\* A sparse foreach or foreach_inplace call, of one or two arrays, under
\* either policy, in a world of at least two processes; the zero tiles of the
\* operands and the tile the transform fails on are chosen among the tiles of
\* the calling process, and every element of a non-zero tile i is 1 + i.
InitSparse ==
  /\ InitCommon
  /\ fut = <<NewFuture>>
  /\ call = NoCall
  /\ sync = NoSync
  /\ groups = {}
  /\ trees = NoTrees
  /\ np \in 2 .. MaxForeachProcs
  /\ \E p \in 0 .. (np - 1), pm \in Pmaps(np), nargs \in 1 .. 2,
        policy \in {"intersection", "union"},
        inplace, plus \in BOOLEAN :
       \E Z1, Z2 \in SUBSET {i \in Tiles : pm[i] = p},
          bad \in {{}} \cup {{i} : i \in {j \in Tiles : pm[j] = p}} :
         /\ nargs = 1 => Z2 = {}
         /\ fe = ForeachCall("sparse", policy, p, pm, nargs, TRUE, inplace,
                             TRUE, plus, TRUE, <<Z1, Z2>>, bad, 1, 1, FALSE)

ForeachSparseStep ==
  /\ fe.kind = "sparse" /\ fe.pc = "loop" /\ fe.todo # <<>>
  /\ \E out \in FindOutcomes(fe, Head(fe.todo)) :
       /\ fe' = foreach_sparse_step(fe, out)
       /\ taskq' = IF Len(fe'.spawned) > Len(fe.spawned)
                   THEN taskq (+) SetToBag({SparseTask(fe, out)})
                   ELSE taskq
  /\ ForeachUnchanged

ForeachSparseCommit ==
  /\ fe.kind = "sparse" /\ fe.pc = "loop" /\ fe.todo = <<>>
  /\ await_counter(fe)
  /\ fe' = foreach_sparse_commit(fe)
  /\ UNCHANGED taskq
  /\ ForeachUnchanged

ForeachSparseTask(t) ==
  /\ fe.kind = "sparse" /\ t.fn = "foreach"
  /\ TaskReady(fut, t)
  /\ \E c \in Captured(fe) : fe' = foreach_sparse_task(fe, t.val, c)
  /\ taskq' = taskq (-) SetToBag({t})
  /\ ForeachUnchanged

NextSparse ==
  \/ ForeachEnter
  \/ ForeachSparseStep
  \/ ForeachSparseCommit
  \/ \E t \in BagToSet(taskq) : ForeachSparseTask(t)

SpecSparse == InitSparse /\ [][NextSparse]_vars

(***************************************************************************)
(* SpecSparseWorld: two processes of the world, fe.a and fe.b, each make    *)
(* the same sparse foreach call of one array; each has its own counter,    *)
(* task_count, tile_norms and tasks.                                       *)
(***************************************************************************)
Callers == {"a", "b"}

\* Faulty variant: the wait is a barrier: it ends when the tasks of every
\* process have completed.
world_await_barrier(w, x) ==
  \A y \in Callers :
    w[y].pc = "done" \/ (w[y].pc = "loop" /\ w[y].todo = <<>> /\ await_counter(w[y]))

\* The wait of caller x: its predicate captures the caller's own counter and
\* task_count ([&counter, task_count]) and nothing else.
world_await(w, x) == await_counter(w[x])

InitSparseWorld ==
  /\ InitCommon
  /\ fut = <<NewFuture>>
  /\ call = NoCall
  /\ sync = NoSync
  /\ groups = {}
  /\ trees = NoTrees
  /\ np \in 2 .. MaxForeachProcs
  /\ \E p, q \in 0 .. (np - 1), pm \in Pmaps(np),
        policy \in {"intersection", "union"}, plus \in BOOLEAN,
        Z \in SUBSET Tiles :
       /\ p # q
       /\ fe = [kind |-> "world",
                a |-> ForeachCall("sparse", policy, p, pm, 1, TRUE, FALSE, TRUE,
                                  plus, TRUE, <<Z, {}>>, {}, 1, 1, FALSE),
                b |-> ForeachCall("sparse", policy, q, pm, 1, TRUE, FALSE, TRUE,
                                  plus, TRUE, <<Z, {}>>, {}, 1, 1, FALSE)]

WorldEnter(x) ==
  /\ fe.kind = "world" /\ fe[x].pc = "start"
  /\ fe' = [fe EXCEPT ![x] = foreach_enter(@)]
  /\ UNCHANGED taskq
  /\ ForeachUnchanged

WorldStep(x) ==
  /\ fe.kind = "world" /\ fe[x].pc = "loop" /\ fe[x].todo # <<>>
  /\ \E out \in FindOutcomes(fe[x], Head(fe[x].todo)) :
       /\ fe' = [fe EXCEPT ![x] = foreach_sparse_step(@, out)]
       /\ taskq' = IF Len(fe'[x].spawned) > Len(fe[x].spawned)
                   THEN taskq (+) SetToBag({SparseTask(fe[x], out)})
                   ELSE taskq
  /\ ForeachUnchanged

WorldCommit(x) ==
  /\ fe.kind = "world" /\ fe[x].pc = "loop" /\ fe[x].todo = <<>>
  /\ world_await(fe, x)
  /\ fe' = [fe EXCEPT ![x] = foreach_sparse_commit(@)]
  /\ UNCHANGED taskq
  /\ ForeachUnchanged

WorldTask(t) ==
  /\ fe.kind = "world" /\ t.fn = "foreach"
  /\ TaskReady(fut, t)
  /\ \E x \in Callers :
       /\ fe[x].me = t.dest
       /\ \E c \in Captured(fe[x]) :
            fe' = [fe EXCEPT ![x] = foreach_sparse_task(@, t.val, c)]
  /\ taskq' = taskq (-) SetToBag({t})
  /\ ForeachUnchanged

NextSparseWorld ==
  \/ \E x \in Callers : WorldEnter(x)
  \/ \E x \in Callers : WorldStep(x)
  \/ \E x \in Callers : WorldCommit(x)
  \/ \E t \in BagToSet(taskq) : WorldTask(t)

SpecSparseWorld == InitSparseWorld /\ [][NextSparseWorld]_vars

\* C35: the wait of a sparse foreach is local: a caller whose loop is over
\* and whose own tasks have all completed can leave its wait and construct
\* its result, whatever the other process has or has not done; and it leaves
\* the wait only then.
C35_LocalWait ==
  \A x \in Callers :
    /\ (fe[x].pc = "loop" /\ fe[x].todo = <<>>
        /\ fe[x].counter = fe[x].task_count) => ENABLED WorldCommit(x)
    /\ fe[x].pc = "done" => fe[x].counter = fe[x].task_count

\* One process has left its wait, its one or more tasks completed, and has
\* returned, while the other process, which has tasks to spawn, has not
\* started its foreach.
C35_Witness ==
  /\ fe.a.pc = "done" /\ fe.a.task_count >= 1
  /\ fe.a.counter = fe.a.task_count
  /\ fe.b.pc = "start"
  /\ \E i \in Tiles : fe.b.pmap[i] = fe.b.me /\ ~sparse_continue(fe.b, i)

(***************************************************************************)
(* Claims about the dense foreach (SpecForeach).                           *)
(***************************************************************************)
\* The indices the process map of arg gives to the calling process.
LocalIndices == {i \in Tiles : fe.pmap[i] = fe.me}

\* The transform applied to the elements the operands' tiles i held when
\* foreach was called.
Transformed(i) ==
  (IF fe.nargs = 1 THEN 2 * (fe.v[1] + i)
   ELSE (fe.v[1] + i) + (fe.v[2] + i))
  + (IF fe.plus THEN 1 ELSE 0)

\* C21: the dense foreach maps tile by tile: the tile the result holds at an
\* index is the transform of the operands' tiles at that same index, and the
\* result has the tiled range and the process map of the first operand, hence
\* the same locally owned indices.
C21_TileByTile ==
  /\ \A r \in fe.result :
       fe.rfut[r[2]].state = "ready" =>
         fe.store[fe.rfut[r[2]].tile] = Transformed(r[1])
  /\ fe.built => fe.rtrange = fe.trange[1] /\ fe.rpmap = fe.pmap
  /\ fe.pc = "done" => ResultIndices(fe) = LocalIndices

\* C22: the dense foreach spawns one task for every locally owned index and
\* none for any other index, and sets no result tile at an index the process
\* does not own.
C22_OneTaskPerLocalIndex ==
  /\ \A k \in DOMAIN fe.spawned : fe.spawned[k] \in LocalIndices
  /\ \A k, l \in DOMAIN fe.spawned : fe.spawned[k] = fe.spawned[l] => k = l
  /\ ResultIndices(fe) \subseteq LocalIndices
  /\ fe.pc = "done" => Len(fe.spawned) = Cardinality(LocalIndices)

\* A process of a world of two has returned from foreach with the two tasks
\* of the two tiles it owns, the other two tiles being the other process's.
C22_Witness ==
  /\ fe.kind = "dense" /\ np = 2 /\ fe.pc = "done"
  /\ Len(fe.spawned) = 2
  /\ Cardinality(Tiles \ LocalIndices) >= 2

\* C28: a foreach of several arrays whose tiled ranges differ fails a
\* precondition check, and spawns no task.
C28_MismatchRejected ==
  ~compare_trange(fe) =>
    /\ fe.spawned = <<>>
    /\ fe.pc # "start" => fe.raised

\* C29: foreach_inplace with its fence flag set completes the fence, hence
\* the work submitted before the call, before it spawns its first per-tile
\* task; with the flag cleared it executes no fence at all.
C29_FenceFirst ==
  fe.inplace =>
    /\ (fe.fence /\ fe.spawned # <<>>) => fe.fences = 1 /\ ~fe.reader
    /\ ~fe.fence => fe.fences = 0

\* An in-place call with its fence flag set has spawned its first task.
C29_Witness ==
  /\ fe.inplace /\ fe.fence
  /\ Len(fe.spawned) = 1
  /\ fe.fences = 1

\* C30: after foreach_inplace and the completion of its tasks, the tile the
\* array holds at each index is the storage of its original tile, so that
\* whoever shares the original tiles reads the mutated elements.
C30_AliasSeesMutation ==
  (fe.kind = "dense" /\ fe.inplace /\ fe.pc = "done" /\ taskq = EmptyBag) =>
    \A i \in LocalIndices \ fe.bad :
      /\ ArgTile(fe, i) = TileOf(1, i)
      /\ fe.store[TileOf(1, i)] # fe.v[1] + i

\* An in-place call on at least two local tiles has returned and all its
\* tasks have mutated their tiles.
C30_Witness ==
  /\ fe.kind = "dense" /\ fe.inplace /\ fe.pc = "done" /\ taskq = EmptyBag
  /\ fe.bad = {}
  /\ Cardinality(LocalIndices) >= 2
  /\ \A i \in LocalIndices : fe.rfut[i].state = "ready"

\* C31: foreach with a pure transform is repeatable: once both of two
\* applications of the same transform to the same arrays are complete, the
\* second result holds at every index the elements the first result held,
\* and the tiles of the input still hold their original elements.
C31_Repeatable ==
  (fe.round = 2 /\ fe.pc = "done" /\ taskq = EmptyBag) =>
    /\ \A i \in LocalIndices :
         /\ ResultTile(fe, i) # NoTile
         /\ fe.store[ResultTile(fe, i)] = fe.first[i]
    /\ \A i \in Tiles :
         /\ fe.store[TileOf(1, i)] = fe.v[1] + i
         /\ fe.store[TileOf(2, i)] = fe.v[2] + i

(***************************************************************************)
(* Claims about the sparse foreach (SpecSparse).                           *)
(***************************************************************************)
SpawnedIndices == {fe.spawned[k] : k \in DOMAIN fe.spawned}

\* Some operand is zero at index i; all operands are zero at index i.
SomeZero(i) == \E a \in 1 .. fe.nargs : i \in fe.zero[a]
AllZero(i) == \A a \in 1 .. fe.nargs : i \in fe.zero[a]

\* The loop over the local indices is over.
LoopOver == fe.todo = <<>> /\ fe.pc \in {"loop", "done"}

\* C23: under the intersection policy no task is spawned for a local index
\* where some operand is zero, and that index is zero in the result; a task
\* is spawned only where all operands are non-zero.
C23_Intersection ==
  (fe.kind = "sparse" /\ fe.policy = "intersection") =>
    /\ \A i \in SpawnedIndices : ~SomeZero(i)
    /\ \A i \in LocalIndices : SomeZero(i) => i \notin ResultIndices(fe)

\* C24: under the union policy one task is spawned for every local index
\* where some operand is non-zero, its zero operands being given as default
\* tiles and never fetched, and no task is spawned where all operands are
\* zero.
C24_Union ==
  (fe.kind = "sparse" /\ fe.policy = "union") =>
    /\ \A i \in SpawnedIndices : ~AllZero(i)
    /\ \A k, l \in DOMAIN fe.spawned : fe.spawned[k] = fe.spawned[l] => k = l
    /\ LoopOver => \A i \in LocalIndices : ~AllZero(i) => i \in SpawnedIndices
    /\ \A x \in fe.fetched : x[2] \notin fe.zero[x[1]]
    /\ \A i \in SpawnedIndices : \A a \in 1 .. fe.nargs :
         i \in fe.zero[a] => <<a, i>> \in fe.subst

\* C25: the sparse foreach constructs the shape of its result, and stores
\* any tile, only once the completion counter equals the number of spawned
\* tasks, every spawned task having written its magnitude.
C25_CommitAfterAllMagnitudes ==
  (fe.kind = "sparse" /\ (fe.built \/ fe.result # {})) =>
    /\ fe.counter = fe.task_count
    /\ fe.task_count = Len(fe.spawned)
    /\ \A i \in SpawnedIndices : fe.rfut[i].state = "ready"

\* The result of a sparse foreach that spawned at least two tasks has been
\* constructed and holds a tile.
C25_Witness ==
  /\ fe.kind = "sparse" /\ fe.built
  /\ fe.task_count >= 2
  /\ fe.result # {}

\* C26: the tile computed for an index is stored in the result exactly when
\* the shape made of the collected magnitudes says the index is non-zero; a
\* computed tile whose magnitude is below the threshold is discarded.
C26_StoredIffNonZero ==
  (fe.kind = "sparse" /\ fe.pc = "done") =>
    \A k \in DOMAIN fe.tiles :
      fe.tiles[k] \in fe.result <=> fe.tile_norms[fe.tiles[k][1]] >= Threshold

\* A sparse foreach has returned, and a tile one of its tasks computed, of a
\* magnitude below the threshold, is not in the result.
C26_Witness ==
  /\ fe.kind = "sparse" /\ fe.pc = "done"
  /\ \E k \in DOMAIN fe.tiles :
       /\ fe.rfut[fe.tiles[k][2]].state = "ready"
       /\ fe.tile_norms[fe.tiles[k][1]] < Threshold
       /\ fe.tiles[k][1] \notin ResultIndices(fe)

\* C27: the failure of the transform on one tile shows only in the pending
\* result of that tile: once a call whose task of one index failed has
\* nothing left to run, it has returned, the tasks of the other indices have
\* run and their tiles are in the result (for a sparse result, where the shape
\* keeps them).
C27_FailureIsolated ==
  (/\ \E i \in Tiles : fe.rfut[i].state = "failed"
   /\ taskq = EmptyBag
   /\ ~ENABLED NextSparse) =>
    /\ fe.pc = "done"
    /\ \A i \in SpawnedIndices :
         fe.rfut[i].state # "failed" =>
           /\ fe.rfut[i].state = "ready"
           /\ (fe.kind = "sparse" => fe.tile_norms[i] >= Threshold) =>
                i \in ResultIndices(fe)

\* The pending tiles whose task has completed.
CompletedTiles ==
  {k \in DOMAIN fe.tiles : fe.rfut[fe.tiles[k][2]].state = "ready"}

\* C37: the counter of a sparse foreach stays between 0 and task_count;
\* task_count is the number of recorded (index, pending tile) entries; the
\* counter is the number of completed tasks, each counted once, and a counted
\* task has written the magnitude of its tile in the slot of its own index;
\* no other slot is written, and no two tasks have the same slot.
C37_CounterInvariant ==
  fe.kind = "sparse" =>
    /\ 0 <= fe.counter /\ fe.counter <= fe.task_count
    /\ fe.task_count = Len(fe.tiles)
    /\ fe.counter = Cardinality(CompletedTiles)
    /\ \A k \in CompletedTiles :
         fe.tile_norms[fe.tiles[k][1]] = fe.store[fe.rfut[fe.tiles[k][2]].tile]
    /\ \A i \in Tiles :
         (\A k \in CompletedTiles : fe.tiles[k][1] # i) => fe.tile_norms[i] = 0
    /\ \A k1, k2 \in DOMAIN fe.tiles :
         k1 # k2 => fe.tiles[k1][1] # fe.tiles[k2][1]

\* The two spawned tasks have completed, each with a magnitude above zero.
C37_Witness ==
  /\ fe.kind = "sparse" /\ fe.counter = 2 /\ fe.task_count = 2
  /\ \A k \in CompletedTiles : fe.tile_norms[fe.tiles[k][1]] > 0
  /\ Cardinality(CompletedTiles) = 2

\* Fair scheduling: the caller goes on whenever it can and a task that can
\* run is eventually run.
FairSpecSparse == SpecSparse /\ WF_vars(NextSparse)

\* C36: under fair scheduling every sparse foreach call ends: it returns, or
\* it is left by the error raised in its loop.
C36_Terminates == <>(fe.pc \in {"done", "failed"})

(***************************************************************************)
(* math::ScalAdd (tile_op/scal_add.h) on Tensor tiles (tensor.h).  A Tensor *)
(* is a handle on its elements (pimpl_): store maps the tiles "left",      *)
(* "right" and the newly constructed "new" to their elements, and the      *)
(* result of an operation is the name of the tile it returns.  Result,     *)
(* Left and Right are the same Tensor type.                                *)
(***************************************************************************)
Elems == [1 .. MaxElems -> Values]
NoElems == <<>>

\* Tensor::scale(factor): a new tensor, the elements of t times factor.
Tensor_scale(st, t, factor) ==
  [store |-> [st EXCEPT !["new"] = [i \in DOMAIN st[t] |-> st[t][i] * factor]],
   ret |-> "new"]

\* Tensor::scale_to(factor): the elements of t are scaled in place; returns
\* a reference to t.
Tensor_scale_to(st, t, factor) ==
  [store |-> [st EXCEPT ![t] = [i \in DOMAIN st[t] |-> st[t][i] * factor]],
   ret |-> t]

\* Tensor::add(other, factor): a new tensor, (t + other) * factor.
Tensor_add(st, t, other, factor) ==
  [store |-> [st EXCEPT !["new"] =
                [i \in DOMAIN st[t] |-> (st[t][i] + st[other][i]) * factor]],
   ret |-> "new"]

\* Tensor::add_to(other, factor): (res += arg) *= factor on the elements of
\* t; returns a reference to t.
Tensor_add_to(st, t, other, factor) ==
  [store |-> [st EXCEPT ![t] =
                [i \in DOMAIN st[t] |-> (st[t][i] + st[other][i]) * factor]],
   ret |-> t]

\* ScalAdd::no_permute, the overload selected by the consumable flags LC and
\* RC and by which operand, if any, is a zero tile.
no_permute(c) ==
  LET r == CASE c.zero = "left" /\ ~c.RC ->
                  Tensor_scale(c.store, "right", c.factor)
             [] c.zero = "left" /\ c.RC ->
                  Tensor_scale_to(c.store, "right", c.factor)
             [] c.zero = "right" /\ ~c.LC ->
                  Tensor_scale_to(c.store, "left", c.factor)
             [] c.zero = "right" /\ c.LC ->
                  Tensor_scale_to(c.store, "left", c.factor)
             [] c.zero = "none" /\ c.LC ->
                  Tensor_add_to(c.store, "left", "right", c.factor)
             [] c.zero = "none" /\ c.RC /\ ~c.LC ->
                  Tensor_add_to(c.store, "right", "left", c.factor)
             [] OTHER ->
                  Tensor_add(c.store, "left", "right", c.factor)
  IN [c EXCEPT !.store = r.store, !.result = r.ret, !.pc = "done"]

\* A ScalAdd<Result, Left, Right, LC, RC>(factor) and its two operands.
InitScalAdd ==
  /\ InitForeachCommon
  /\ np = 1
  /\ taskq = EmptyBag
  /\ \E LC \in BOOLEAN, RC \in BOOLEAN, factor \in Values,
        zero \in {"none", "left", "right"}, left \in Elems, right \in Elems :
       fe = [kind |-> "scal_add", LC |-> LC, RC |-> RC, factor |-> factor,
             zero |-> zero,
             left |-> IF zero = "left" THEN NoElems ELSE left,
             right |-> IF zero = "right" THEN NoElems ELSE right,
             store |-> [t \in {"left", "right", "new"} |->
                         CASE t = "left" /\ zero # "left" -> left
                           [] t = "right" /\ zero # "right" -> right
                           [] OTHER -> NoElems],
             result |-> "none", pc |-> "start"]

ScalAddEval ==
  /\ fe.kind = "scal_add" /\ fe.pc = "start"
  /\ fe' = no_permute(fe)
  /\ UNCHANGED taskq
  /\ ForeachUnchanged

NextScalAdd == ScalAddEval

SpecScalAdd == InitScalAdd /\ [][NextScalAdd]_vars

\* The elements e scaled by the factor of c.
Scaled(c, e) == [i \in DOMAIN e |-> e[i] * c.factor]

\* C40: ScalAdd leaves a non-consumable operand as it was: with a zero right
\* operand and a left tile that is not consumable the result is left scaled
\* by the factor and the elements of left are unchanged; the same for a
\* right tile that is not consumable and a zero left operand.
C40_NonConsumableUnchanged ==
  (fe.kind = "scal_add" /\ fe.pc = "done") =>
    /\ (fe.zero = "right" /\ ~fe.LC) =>
         /\ fe.store[fe.result] = Scaled(fe, fe.left)
         /\ fe.store["left"] = fe.left
    /\ (fe.zero = "left" /\ ~fe.RC) =>
         /\ fe.store[fe.result] = Scaled(fe, fe.right)
         /\ fe.store["right"] = fe.right

====
